---- MODULE Spec2Model ----
(***************************************************************************)
(* Model of the resumable incremental indexing pipeline of code-rag-mcp:   *)
(* IncrementalIndexer.IndexDirectoryIncremental / processBatch             *)
(* (rag/incremental_indexer.go), Indexer.chunkFile / indexBatch            *)
(* (unnamed/part_008) and IndexingState (unnamed/part_007).                *)
(*                                                                         *)
(* One run of IndexDirectoryIncremental is cut into steps at the points    *)
(* where the environment can interfere: the context can be cancelled, the  *)
(* process can crash, an embedding/upsert call or a write of the state     *)
(* file can fail.  Between runs files can be edited.                       *)
(*                                                                         *)
(* Other parts have a specification of their own, further down:            *)
(* the line-window chunker (SpecChunker), deduplicateResults of            *)
(* rag/vectordb.go (SpecDedup), the ordering of collectFiles               *)
(* (SpecCollect), Indexer.ReindexFiles (SpecReindex), the lock of          *)
(* IndexingState between a run and a progress query (SpecLocks),           *)
(* LocalEmbedder.EmbedBatch (SpecEmbed), the processing of the             *)
(* pending-reindex marker file (SpecPending) and the directory walk of     *)
(* collectFiles (SpecWalk).                                                *)
(***************************************************************************)
EXTENDS Integers, Sequences, FiniteSets, TLC

----------------------------------------------------------------------------
(* Bounds of the model. *)

\* number of files that can exist under the indexed root
NumFiles == 3
\* largest number of chunks one file yields
MaxChunks == 2
\* number of runs of IndexDirectoryIncremental in one behaviour
MaxRuns == 2
\* number of edits of the file tree between runs
MaxEdits == 1
\* FileBatchSize of the code is 50; scaled down so that a tree of NumFiles
\* files is cut into more than one file-batch
FileBatchSize == 2
\* ChunkBatchSize of the code is 100; scaled down so that one file-batch is
\* cut into more than one chunk sub-batch
ChunkBatchSize == 2

----------------------------------------------------------------------------
(* The environment: files, roots, what reading a file gives. *)

\* A file is named by its rank in the order collectFiles returns (priority,
\* then path).
Files == 1..NumFiles

\* The requested root paths.  Every file of the model lies under "A"; "B" is
\* another directory, with no candidate file in it.
Roots == {"A", "B"}

RootOf(f) == "A"

\* What is on disk at a path: nothing, a file os.ReadFile fails on, or a
\* readable file that chunkFile cuts into n chunks.
FileAbsent == [kind |-> "absent", n |-> 0]

FileUnreadable == [kind |-> "unreadable", n |-> 0]

FileText(n) == [kind |-> "text", n |-> n]

FileKinds == {FileAbsent, FileUnreadable} \cup {FileText(n) : n \in 0..MaxChunks}

\* Before the first run every file exists: unreadable, blank (no chunk) or
\* of MaxChunks chunks.  The other kinds come with an edit.
InitKinds == {FileUnreadable, FileText(0), FileText(MaxChunks)}

\* marks a key that a Go map does not hold
Absent == "<absent>"

\* err.Error() of the *PathError os.ReadFile returns
ReadErrMsg == "open: permission denied"

Min(S) == CHOOSE x \in S : \A y \in S : x <= y

RECURSIVE SortedSeq(_)
SortedSeq(S) == IF S = {} THEN <<>>
                ELSE LET m == Min(S) IN <<m>> \o SortedSeq(S \ {m})

Range(s) == {s[k] : k \in 1..Len(s)}

\* collectFiles: the candidates under rootPath, sorted.
collectFiles(rootPath, fsys) ==
  SortedSeq({f \in Files : RootOf(f) = rootPath /\ fsys[f].kind # "absent"})

\* chunkFile as processBatch sees it: an error, or the chunks of the file.
chunkFile(fsys, f) ==
  IF fsys[f].kind # "text"
  THEN [err |-> ReadErrMsg, chunks |-> <<>>]
  ELSE [err |-> "", chunks |-> [k \in 1..fsys[f].n |-> [file |-> f, idx |-> k]]]

----------------------------------------------------------------------------
(* IndexingState.  The time stamps are left out: no claim reads them. *)

NewIndexingState(rootPath) ==
  [root      |-> rootPath,
   total     |-> 0,
   indexed   |-> 0,
   chunks    |-> 0,
   processed |-> {},
   failed    |-> [f \in Files |-> Absent],
   status    |-> "in_progress"]

MarkFileProcessed(s, f, n) ==
  [s EXCEPT !.processed = @ \cup {f},
            !.indexed   = @ + 1,
            !.chunks    = @ + n]

MarkFileFailed(s, f, msg) ==
  [s EXCEPT !.failed[f] = msg]

IsFileProcessed(s, f) == f \in s.processed

\* mutant: the status is not assigned
SetStatus_NotAssigned(s, status) == s

SetStatus(s, status) == [s EXCEPT !.status = status]

FailedKeys(s) == {f \in Files : s.failed[f] # Absent}

\* The state file: missing, not parseable, or the JSON image of a state.
NoFile == [kind |-> "none", st |-> NewIndexingState("")]

Corrupt == [kind |-> "corrupt", st |-> NewIndexingState("")]

\* json.MarshalIndent of the exported fields; the maps are never nil.
Marshal(s) == [kind |-> "ok", st |-> s]

\* LoadIndexingState: os.ReadFile, then json.Unmarshal.
LoadIndexingState(d) ==
  IF d.kind = "ok" THEN [err |-> FALSE, state |-> d.st]
  ELSE [err |-> TRUE, state |-> NewIndexingState("")]

\* IndexingState.Save: the file is overwritten with the image of s, or
\* os.WriteFile fails (it cannot open the file) and the old file stays.
Save(s, d, outcome) ==
  IF outcome = "ok" THEN Marshal(s) ELSE d

SaveOutcomes == {"ok", "fail"}

----------------------------------------------------------------------------
(* IndexDirectoryIncremental *)

\* mutant: the root path of the persisted state is not compared
StartFresh_IgnoreRoot(ld, path) ==
  ld.err \/ ld.state.status = "completed"

\* mutant: a persisted state that is completed is resumed
StartFresh_IgnoreCompleted(ld, path) ==
  ld.err \/ ld.state.root # path

\* the condition of line 45: start fresh
StartFresh(ld, path) ==
  ld.err \/ ld.state.root # path \/ ld.state.status = "completed"

\* mutant: the processed files are not filtered out
FilterUnprocessed_NoFilter(all, s) == all

RECURSIVE FilterUnprocessed(_, _)

\* mutant: the first candidate is kept even when it is processed
FilterUnprocessed_KeepFirst(all, s) ==
  IF all = <<>> THEN <<>>
  ELSE <<Head(all)>> \o FilterUnprocessed(Tail(all), s)

FilterUnprocessed(all, s) ==
  IF all = <<>> THEN <<>>
  ELSE IF ~IsFileProcessed(s, Head(all))
       THEN <<Head(all)>> \o FilterUnprocessed(Tail(all), s)
       ELSE FilterUnprocessed(Tail(all), s)

BatchEnd(i, n) == IF i + FileBatchSize > n THEN n ELSE i + FileBatchSize

\* mutant: all the chunks of a file-batch go in one call
ChunkBatchEnd_All(j, n) == n

ChunkBatchEnd(j, n) == IF j + ChunkBatchSize > n THEN n ELSE j + ChunkBatchSize

\* mutant: a file that fails to chunk drops the chunks collected so far
ProcessFile_DropChunks(acc, fsys, f) ==
  LET r == chunkFile(fsys, f) IN
  IF r.err # ""
  THEN [state |-> MarkFileFailed(acc.state, f, r.err), chunks |-> <<>>]
  ELSE [state  |-> MarkFileProcessed(acc.state, f, Len(r.chunks)),
        chunks |-> acc.chunks \o r.chunks]

\* mutant: the chunks of a file are put before those collected so far
ProcessFile_Prepend(acc, fsys, f) ==
  LET r == chunkFile(fsys, f) IN
  IF r.err # ""
  THEN [state |-> MarkFileFailed(acc.state, f, r.err), chunks |-> acc.chunks]
  ELSE [state  |-> MarkFileProcessed(acc.state, f, Len(r.chunks)),
        chunks |-> r.chunks \o acc.chunks]

\* mutant: a file without chunks is left out of the processed set
ProcessFile_SkipEmpty(acc, fsys, f) ==
  LET r == chunkFile(fsys, f) IN
  IF r.err # ""
  THEN [state |-> MarkFileFailed(acc.state, f, r.err), chunks |-> acc.chunks]
  ELSE IF Len(r.chunks) = 0
       THEN acc
       ELSE [state  |-> MarkFileProcessed(acc.state, f, Len(r.chunks)),
             chunks |-> acc.chunks \o r.chunks]

\* One iteration of the file loop of processBatch (lines 253-273) on the
\* accumulator [state, chunks].
ProcessFile(acc, fsys, f) ==
  LET r == chunkFile(fsys, f) IN
  IF r.err # ""
  THEN [state |-> MarkFileFailed(acc.state, f, r.err), chunks |-> acc.chunks]
  ELSE IF Len(r.chunks) = 0
       THEN [state |-> MarkFileProcessed(acc.state, f, 0), chunks |-> acc.chunks]
       ELSE [state  |-> MarkFileProcessed(acc.state, f, Len(r.chunks)),
             chunks |-> acc.chunks \o r.chunks]

RECURSIVE ProcessFiles(_, _, _)
ProcessFiles(acc, fsys, files) ==
  IF files = <<>> THEN acc
  ELSE ProcessFiles(ProcessFile(acc, fsys, Head(files)), fsys, Tail(files))

VARIABLES
  fs,          \* the file tree: file -> FileKinds
  disk,        \* the state file
  store,       \* the points of the vector store
  pc,          \* position of the run
  st,          \* idx.state
  path,        \* the requested root of the run
  toProcess,   \* filesToProcess
  i,           \* index of the file loop
  allChunks,   \* allChunks of processBatch
  j,           \* index of the chunk loop
  cancelled,   \* ctx.Done() is closed
  result,      \* what the run returned
  runs,        \* number of runs started
  edits,       \* number of edits made
  hist,        \* what the claims need to remember of the run
  pf           \* the call of a function checked on its own: input, result

vars == <<fs, disk, store, pc, st, path, toProcess, i, allChunks, j,
          cancelled, result, runs, edits, hist, pf>>

NoHist ==
  [resumed     |-> FALSE,       \* the run reused the persisted state
   loaded      |-> NoFile,      \* the state file as the run found it
   start       |-> NewIndexingState(""), \* the state the run started from
   visited     |-> <<>>,        \* files handed to chunkFile, in order
   batches     |-> <<>>,        \* per file-batch: files, chunks, upserted,
                                \* size of its last indexBatch call, failed
   embedCalls  |-> 0,           \* EmbedBatch calls of the run
   upsertCalls |-> 0,           \* Upsert calls of the run
   saveCalls   |-> 0,           \* Save calls of the run
   lastSaved   |-> NewIndexingState(""), \* argument of the last Save call
   lastSaveOk  |-> FALSE,       \* the last Save call wrote the file
   savesOk     |-> TRUE,        \* no Save call of the run has failed
   prevSavesOk |-> TRUE,        \* no Save call of the previous run failed
   prev        |-> "none",      \* how the previous run on this process ended
   prevPath    |-> "",          \* root of the previous run
   prevMem     |-> {},          \* in-memory processed set when it ended
   clean       |-> TRUE]        \* no edit since the previous run started

\* no function is being checked on its own
NoCall == [op |-> "none"]

Init ==
  /\ fs \in [Files -> InitKinds]
  /\ disk = NoFile
  /\ store = {}
  /\ pc = "idle"
  /\ st = NewIndexingState("")
  /\ path = ""
  /\ toProcess = <<>>
  /\ i = 0
  /\ allChunks = <<>>
  /\ j = 0
  /\ cancelled = FALSE
  /\ result = "none"
  /\ runs = 0
  /\ edits = 0
  /\ hist = NoHist
  /\ pf = NoCall

\* mutant: the state is written when the walk fails
StartRun_SaveOnWalkError(p, walkOk) ==
  /\ pc = "idle"
  /\ runs < MaxRuns
  /\ LET ld  == LoadIndexingState(disk)
         s0  == IF StartFresh(ld, p) THEN NewIndexingState(p) ELSE ld.state
         all == collectFiles(p, fs)
         s1  == [s0 EXCEPT !.total = Len(all)]
         tp  == FilterUnprocessed(all, s1)
         h   == [hist EXCEPT !.resumed = ~StartFresh(ld, p),
                             !.loaded = disk,
                             !.start = s0,
                             !.visited = <<>>,
                             !.batches = <<>>,
                             !.embedCalls = 0,
                             !.upsertCalls = 0,
                             !.saveCalls = 0,
                             !.lastSaved = NewIndexingState(""),
                             !.lastSaveOk = FALSE,
                             !.savesOk = TRUE]
     IN  /\ runs' = runs + 1
         /\ path' = p
         /\ cancelled' = FALSE
         /\ i' = 0
         /\ j' = 0
         /\ allChunks' = <<>>
         /\ hist' = h
         /\ disk' = IF walkOk THEN disk ELSE Marshal(s0)
         /\ IF ~walkOk
            THEN /\ st' = s0
                 /\ toProcess' = <<>>
                 /\ result' = "error"
                 /\ pc' = "done"
            ELSE /\ toProcess' = tp
                 /\ result' = "none"
                 /\ IF Len(tp) = 0
                    THEN /\ st' = SetStatus(s1, "completed")
                         /\ pc' = "save_final"
                    ELSE /\ st' = s1
                         /\ pc' = "loop"
  /\ UNCHANGED <<pf, fs, store, edits>>

\* Lines 43-83 up to the batch loop: load or create the state, collect the
\* candidates, filter the processed ones, finish when none is left.
StartRun(p, walkOk) ==
  /\ pc = "idle"
  /\ runs < MaxRuns
  /\ LET ld  == LoadIndexingState(disk)
         s0  == IF StartFresh(ld, p) THEN NewIndexingState(p) ELSE ld.state
         all == collectFiles(p, fs)
         s1  == [s0 EXCEPT !.total = Len(all)]
         tp  == FilterUnprocessed(all, s1)
         h   == [hist EXCEPT !.resumed = ~StartFresh(ld, p),
                             !.loaded = disk,
                             !.start = s0,
                             !.visited = <<>>,
                             !.batches = <<>>,
                             !.embedCalls = 0,
                             !.upsertCalls = 0,
                             !.saveCalls = 0,
                             !.lastSaved = NewIndexingState(""),
                             !.lastSaveOk = FALSE,
                             !.savesOk = TRUE]
     IN  /\ runs' = runs + 1
         /\ path' = p
         /\ cancelled' = FALSE
         /\ i' = 0
         /\ j' = 0
         /\ allChunks' = <<>>
         /\ hist' = h
         /\ IF ~walkOk
            THEN /\ st' = s0
                 /\ toProcess' = <<>>
                 /\ result' = "error"
                 /\ pc' = "done"
            ELSE /\ toProcess' = tp
                 /\ result' = "none"
                 /\ IF Len(tp) = 0
                    THEN /\ st' = SetStatus(s1, "completed")
                         /\ pc' = "save_final"
                    ELSE /\ st' = s1
                         /\ pc' = "loop"
  /\ UNCHANGED <<pf, fs, disk, store, edits>>

\* The loop condition fails: lines 122-123.
LoopExit ==
  /\ pc = "loop"
  /\ i >= Len(toProcess)
  /\ st' = SetStatus(st, "completed")
  /\ pc' = "save_final"
  /\ UNCHANGED <<pf, fs, disk, store, path, toProcess, i, allChunks, j,
                 cancelled, result, runs, edits, hist>>

\* mutant: the cancelled run returns without saving the state
LoopCancelled_NoSave ==
  /\ pc = "loop"
  /\ i < Len(toProcess)
  /\ cancelled
  /\ result' = "cancelled"
  /\ pc' = "done"
  /\ UNCHANGED <<pf, fs, disk, store, st, path, toProcess, i, allChunks, j,
                 cancelled, runs, edits, hist>>

\* Lines 87-91: the context is done at the top of an iteration.
LoopCancelled ==
  /\ pc = "loop"
  /\ i < Len(toProcess)
  /\ cancelled
  /\ pc' = "save_cancel"
  /\ UNCHANGED <<pf, fs, disk, store, st, path, toProcess, i, allChunks, j,
                 cancelled, result, runs, edits, hist>>

\* Lines 95-101 and 251-277: cut the next file-batch and chunk its files.
ChunkBatch ==
  /\ pc = "loop"
  /\ i < Len(toProcess)
  /\ ~cancelled
  /\ LET end   == BatchEnd(i, Len(toProcess))
         batch == SubSeq(toProcess, i + 1, end)
         acc   == ProcessFiles([state |-> st, chunks |-> <<>>], fs, batch)
     IN  /\ st' = acc.state
         /\ allChunks' = acc.chunks
         /\ j' = 0
         /\ hist' = [hist EXCEPT
                       !.visited = @ \o batch,
                       !.batches = Append(@, [files    |-> batch,
                                              chunks   |-> acc.chunks,
                                              upserted |-> 0,
                                              sub      |-> 0,
                                              failed   |-> FALSE])]
         /\ pc' = IF Len(acc.chunks) = 0 THEN "save_batch" ELSE "index"
  /\ UNCHANGED <<pf, fs, disk, store, path, toProcess, i, cancelled, result,
                 runs, edits>>

\* The points indexBatch builds; a fresh uuid per point, here the run number.
Points(cb, gen) == {[file |-> cb[k].file, idx |-> cb[k].idx, gen |-> gen] :
                      k \in 1..Len(cb)}

IndexOutcomes == {"ok", "embed_fail", "upsert_fail"}

\* mutant: the error of processBatch is returned by the run
AfterIndexBatch_Abort(outcome, end, n) ==
  IF outcome = "ok" THEN (IF end < n THEN "index" ELSE "save_batch") ELSE "done"

\* Where the run goes after indexBatch returned for the chunks up to end of
\* n: the next sub-batch, or out of processBatch (lines 287-289), whose
\* error the caller only logs (lines 101-108) before it saves the state.
AfterIndexBatch(outcome, end, n) ==
  IF outcome = "ok" /\ end < n THEN "index" ELSE "save_batch"

\* Lines 280-293 and indexBatch: one chunk sub-batch is embedded and
\* upserted; the first failure ends processBatch with an error, which the
\* caller logs.
IndexSubBatch(outcome) ==
  /\ pc = "index"
  /\ LET n   == Len(allChunks)
         end == ChunkBatchEnd(j, n)
         cb  == SubSeq(allChunks, j + 1, end)
         b   == Len(hist.batches)
     IN  /\ store' = IF outcome = "ok" THEN store \cup Points(cb, runs) ELSE store
         /\ hist' = [hist EXCEPT
                       !.embedCalls = @ + 1,
                       !.upsertCalls = IF outcome = "embed_fail" THEN @ ELSE @ + 1,
                       !.batches[b].upserted = IF outcome = "ok" THEN @ + Len(cb) ELSE @,
                       !.batches[b].sub = Len(cb),
                       !.batches[b].failed = (outcome # "ok")]
         /\ j' = IF outcome = "ok" THEN end ELSE j
         /\ pc' = AfterIndexBatch(outcome, end, n)
  /\ UNCHANGED <<pf, fs, disk, st, path, toProcess, i, allChunks, cancelled,
                 result, runs, edits>>

SaveHist(outcome) ==
  [hist EXCEPT !.saveCalls = @ + 1,
               !.lastSaved = st,
               !.lastSaveOk = (outcome = "ok"),
               !.savesOk = (@ /\ outcome = "ok")]

\* Lines 110-113: Save after the batch, whatever processBatch returned.
SaveAfterBatch(outcome) ==
  /\ pc = "save_batch"
  /\ disk' = Save(st, disk, outcome)
  /\ hist' = SaveHist(outcome)
  /\ i' = i + FileBatchSize
  /\ pc' = "loop"
  /\ UNCHANGED <<pf, fs, store, st, path, toProcess, allChunks, j, cancelled,
                 result, runs, edits>>

\* Lines 90-91: Save, then return ctx.Err().
SaveOnCancel(outcome) ==
  /\ pc = "save_cancel"
  /\ disk' = Save(st, disk, outcome)
  /\ hist' = SaveHist(outcome)
  /\ result' = "cancelled"
  /\ pc' = "done"
  /\ UNCHANGED <<pf, fs, store, st, path, toProcess, i, allChunks, j, cancelled,
                 runs, edits>>

\* Lines 80-82 and 123-131: Save the completed state, return nil.
SaveCompleted(outcome) ==
  /\ pc = "save_final"
  /\ disk' = Save(st, disk, outcome)
  /\ hist' = SaveHist(outcome)
  /\ result' = "ok"
  /\ pc' = "done"
  /\ UNCHANGED <<pf, fs, store, st, path, toProcess, i, allChunks, j, cancelled,
                 runs, edits>>

\* What the claims remember from one run to the next; the rest of hist is
\* about the run itself and is dropped when the run ends.
EndOfRun(how) ==
  [NoHist EXCEPT !.prev = how, !.prevPath = path, !.prevMem = st.processed,
                 !.prevSavesOk = hist.savesOk]

\* The run has returned; the process waits for the next request.  idx.state
\* stays; the locals of the run are gone.
Return ==
  /\ pc = "done"
  /\ pc' = "idle"
  /\ hist' = EndOfRun(result)
  /\ toProcess' = <<>>
  /\ i' = 0
  /\ j' = 0
  /\ allChunks' = <<>>
  /\ cancelled' = FALSE
  /\ UNCHANGED <<pf, fs, disk, store, st, path, result, runs, edits>>

\* The caller cancels the context of the run.
Cancel ==
  /\ pc \in {"loop", "index"}
  /\ ~cancelled
  /\ cancelled' = TRUE
  /\ UNCHANGED <<pf, fs, disk, store, pc, st, path, toProcess, i, allChunks, j,
                 result, runs, edits, hist>>

\* The process dies during a run and is started again.  The memory is
\* lost; the state file and the store stay.  os.WriteFile is not atomic:
\* dying inside Save can leave a truncated state file.
Crash(torn) ==
  /\ pc \in {"loop", "index", "save_batch", "save_cancel", "save_final"}
  /\ torn => pc \in {"save_batch", "save_cancel", "save_final"}
  /\ disk' = IF torn THEN Corrupt ELSE disk
  /\ pc' = "idle"
  /\ result' = "crashed"
  /\ hist' = EndOfRun("crashed")
  /\ st' = NewIndexingState("")
  /\ toProcess' = <<>>
  /\ i' = 0
  /\ j' = 0
  /\ allChunks' = <<>>
  /\ cancelled' = FALSE
  /\ UNCHANGED <<pf, fs, store, path, runs, edits>>

\* Between two runs a file is created, removed, rewritten or its
\* permissions change.  (An edit before the first run is a choice of Init.)
EditFile(f, k) ==
  /\ pc = "idle"
  /\ 0 < runs /\ runs < MaxRuns
  /\ edits < MaxEdits
  /\ fs[f] # k
  /\ fs' = [fs EXCEPT ![f] = k]
  /\ edits' = edits + 1
  /\ hist' = [hist EXCEPT !.clean = FALSE]
  /\ UNCHANGED <<pf, disk, store, pc, st, path, toProcess, i, allChunks, j,
                 cancelled, result, runs>>

Next ==
  \/ \E p \in Roots, walkOk \in BOOLEAN : StartRun(p, walkOk)
  \/ LoopExit
  \/ LoopCancelled
  \/ ChunkBatch
  \/ \E o \in IndexOutcomes : IndexSubBatch(o)
  \/ \E o \in SaveOutcomes : SaveAfterBatch(o)
  \/ \E o \in SaveOutcomes : SaveOnCancel(o)
  \/ \E o \in SaveOutcomes : SaveCompleted(o)
  \/ Return
  \/ Cancel
  \/ \E torn \in BOOLEAN : Crash(torn)
  \/ \E f \in Files, k \in FileKinds : EditFile(f, k)

Spec == Init /\ [][Next]_vars

----------------------------------------------------------------------------
(* Properties of the pipeline. *)

\* the points of the store that the current run upserted
RunPoints == {q \in store : q.gen = runs}

\* the chunks of a sequence whose point the current run has upserted
Stored(chunks) ==
  {c \in Range(chunks) : [file |-> c.file, idx |-> c.idx, gen |-> runs] \in store}

\* C1: when a run that returned nil, all of its Save calls having written
\* the state file, is followed, with no edit of the tree in between, by a
\* second run on the same root, the second run ends with status completed
\* after no EmbedBatch call and no Upsert call.
C1_IdempotentResume ==
  (pc = "done" /\ result = "ok" /\ hist.prev = "ok" /\ hist.prevPath = path
     /\ hist.prevSavesOk /\ hist.clean)
  => (hist.embedCalls = 0 /\ hist.upsertCalls = 0 /\ st.status = "completed")

\* C2: a run that resumes the persisted state hands no file of the persisted
\* processed set to processBatch, and upserts no point of such a file; the
\* files to process are the candidates that are not in that set.
C2_Resumability ==
  (pc # "idle" /\ hist.resumed)
  => LET done == hist.loaded.st.processed IN
     /\ Range(hist.visited) \cap done = {}
     /\ \A q \in RunPoints : q.file \notin done
     /\ result # "error" =>
          Range(toProcess) = Range(collectFiles(path, fs)) \ done

C2_Witness ==
  /\ pc = "done"
  /\ hist.resumed
  /\ hist.loaded.st.processed # {}
  /\ hist.visited # <<>>
  /\ RunPoints # {}

\* C3: a run reuses the persisted state exactly when the state file loads,
\* its root path is the requested path and its status is not completed;
\* otherwise it starts from a state with an empty processed set, an empty
\* failed map, zero counters and status in_progress, and nothing of the
\* persisted progress gets into it.
C3_FreshOrResume ==
  pc # "idle"
  => LET d == hist.loaded IN
     /\ hist.resumed <=>
          (d.kind = "ok" /\ d.st.root = path /\ d.st.status # "completed")
     /\ hist.resumed => hist.start = d.st
     /\ ~hist.resumed =>
          /\ hist.start.root = path
          /\ hist.start.processed = {}
          /\ FailedKeys(hist.start) = {}
          /\ hist.start.total = 0
          /\ hist.start.indexed = 0
          /\ hist.start.chunks = 0
          /\ hist.start.status = "in_progress"
          /\ st.processed \subseteq Range(hist.visited)
          /\ FailedKeys(st) \subseteq Range(hist.visited)
          /\ st.indexed = Cardinality(st.processed)

C3_Witness ==
  /\ pc # "idle"
  /\ ~hist.resumed
  /\ hist.loaded.kind = "ok"
  /\ hist.loaded.st.status = "in_progress"
  /\ hist.loaded.st.root # path
  /\ hist.loaded.st.processed # {}
  /\ st.processed = {}

\* C4: when a run follows, on the same root, a run that crashed, none of
\* whose Save calls had failed, the files it processes again although the
\* crashed run had marked them processed are at most one file-batch.
C4_CrashLosesAtMostOneBatch ==
  (pc # "idle" /\ hist.prev = "crashed" /\ hist.prevPath = path
     /\ hist.prevSavesOk)
  => Cardinality(Range(toProcess) \cap hist.prevMem) <= FileBatchSize

\* C5: the cancellation stays set during the run; once it is set, the top of
\* the file loop starts no batch (nothing is chunked, embedded or upserted),
\* and the run saves the state, status in_progress, and returns cancelled.
C5_CancelAtBoundary ==
  /\ [][(cancelled /\ pc' # "idle") => cancelled']_vars
  /\ [][(cancelled /\ pc = "loop")
          => \/ pc' = "idle"
             \/ /\ pc' = IF i < Len(toProcess) THEN "save_cancel" ELSE "save_final"
                /\ hist' = hist
                /\ store' = store
                /\ st'.processed = st.processed
                /\ st'.failed = st.failed]_vars
  /\ [][pc = "save_cancel"
          => \/ pc' = "idle"
             \/ /\ pc' = "done"
                /\ result' = "cancelled"
                /\ st' = st
                /\ st.status = "in_progress"
                /\ store' = store
                /\ hist'.visited = hist.visited
                /\ hist'.embedCalls = hist.embedCalls
                /\ hist'.saveCalls = hist.saveCalls + 1
                /\ hist'.lastSaved = st
                /\ hist'.lastSaveOk => disk' = Marshal(st)]_vars

C5_Witness ==
  /\ pc = "done"
  /\ result = "cancelled"
  /\ hist.visited # <<>>
  /\ Len(hist.visited) < Len(toProcess)
  /\ hist.lastSaveOk
  /\ disk = Marshal(st)

\* C6: when a run has returned, every file-batch of it has all of its chunks
\* in the store or none of them.
C6_NoHalfAppliedBatch ==
  pc = "done"
  => \A b \in 1..Len(hist.batches) :
       \/ Stored(hist.batches[b].chunks) = Range(hist.batches[b].chunks)
       \/ Stored(hist.batches[b].chunks) = {}

\* C7: a run that finds no unprocessed candidate sets status completed, saves
\* the state and returns nil, with no EmbedBatch call and no Upsert call.
C7_NothingLeft ==
  (pc = "done" /\ result # "error" /\ toProcess = <<>>)
  => /\ result = "ok"
     /\ st.status = "completed"
     /\ hist.embedCalls = 0
     /\ hist.upsertCalls = 0
     /\ RunPoints = {}
     /\ hist.visited = <<>>
     /\ hist.saveCalls = 1
     /\ hist.lastSaved = st
     /\ hist.lastSaveOk => disk = Marshal(st)

C7_Witness ==
  /\ pc = "done"
  /\ result = "ok"
  /\ toProcess = <<>>
  /\ hist.resumed
  /\ hist.loaded.st.processed # {}
  /\ hist.lastSaveOk

\* C8: a failed EmbedBatch or Upsert call does not end the run: a run ends
\* with an error only when the collection failed, a run that is not cancelled
\* ends after every file to process went through processBatch, and Save has
\* been called after every batch, failed or not.
C8_BatchIsolation ==
  /\ result = "error" => hist.batches = <<>>
  /\ (pc = "done" /\ result \notin {"cancelled", "error"})
       => (result = "ok" /\ hist.visited = toProcess)
  /\ pc = "loop"
       => /\ hist.saveCalls = Len(hist.batches)
          /\ hist.visited = SubSeq(toProcess, 1, BatchEnd(i - FileBatchSize, Len(toProcess)))
          /\ hist.batches # <<>> => hist.lastSaved = st
  /\ pc \in {"index", "save_batch"} => hist.saveCalls = Len(hist.batches) - 1

C8_Witness ==
  /\ pc = "done"
  /\ result = "ok"
  /\ Len(hist.batches) >= 2
  /\ hist.batches[1].failed
  /\ Stored(hist.batches[2].chunks) # {}

\* C9: in every batch a file that chunkFile fails on is in the failed map
\* with a non-empty message and not in the processed set, and every other
\* file of the batch is in the processed set with all of its chunks in the
\* batch's chunk list; they are in the store once the sub-batches of the
\* batch have gone through.
C9_PartialFailureIsolation ==
  pc # "idle"
  => \A b \in 1..Len(hist.batches) :
       LET B == hist.batches[b] IN
       \A k \in 1..Len(B.files) :
         LET f == B.files[k]
             r == chunkFile(fs, f)
         IN  IF r.err # ""
             THEN /\ st.failed[f] \notin {Absent, ""}
                  /\ f \notin st.processed
                  /\ \A c \in Range(B.chunks) : c.file # f
             ELSE /\ f \in st.processed
                  /\ Range(r.chunks) \subseteq Range(B.chunks)
                  /\ B.upserted = Len(B.chunks)
                       => Range(r.chunks) \subseteq Stored(B.chunks)

C9_Witness ==
  /\ pc = "done"
  /\ \E b \in 1..Len(hist.batches) :
       LET B == hist.batches[b] IN
       /\ B.upserted = Len(B.chunks)
       /\ \E f \in Range(B.files) : chunkFile(fs, f).err # ""
       /\ \E g \in Range(B.files) :
            /\ chunkFile(fs, g).chunks # <<>>
            /\ Range(chunkFile(fs, g).chunks) \subseteq Stored(B.chunks)

\* C10: no file is both in the processed set and in the failed map, in the
\* state of the run and in the state file.
C10_ProcessedFailedDisjoint ==
  /\ st.processed \cap FailedKeys(st) = {}
  /\ disk.st.processed \cap FailedKeys(disk.st) = {}


\* C11: the status of the state object of a run changes only from
\* in_progress to completed or from in_progress to failed.  A run never
\* works on a state object that is already completed or failed (a persisted
\* state that is completed is replaced by a new object), and once the object
\* of the run is completed or failed no step of the run changes its status.
\* StartRun installs the object of the run and Crash loses it with the
\* memory of the process, so these two steps are not changes of one object.
C11_StatusTransitions ==
  /\ [](pc # "idle" => hist.start.status = "in_progress")
  /\ [][(pc = "idle" /\ pc' # "idle")
         => st'.status \in {hist'.start.status, "completed", "failed"}]_vars
  /\ [][(pc # "idle" /\ ~(pc' = "idle" /\ result' = "crashed"))
         => \/ st'.status = st.status
            \/ /\ st.status = "in_progress"
               /\ st'.status \in {"completed", "failed"}]_vars

\* a resumed state went from in_progress to completed and the run returned
C11_Witness ==
  /\ pc = "idle"
  /\ hist.prev = "ok"
  /\ st.status = "completed"
  /\ disk.kind = "ok"
  /\ disk.st.status = "completed"
  /\ runs = MaxRuns
  /\ st.processed # {}

----------------------------------------------------------------------------
(* The functions checked on their own.  Each has a specification of its    *)
(* own: Init draws the input, an action applies the function.  The         *)
(* pipeline does not run in these specifications.                          *)

pipeVars == <<disk, pc, st, path, toProcess, i, allChunks, j, cancelled,
              result, runs, edits, hist>>

\* no run of IndexDirectoryIncremental has started
PipelineIdle ==
  /\ disk = NoFile
  /\ pc = "idle"
  /\ st = NewIndexingState("")
  /\ path = ""
  /\ toProcess = <<>>
  /\ i = 0
  /\ allChunks = <<>>
  /\ j = 0
  /\ cancelled = FALSE
  /\ result = "none"
  /\ runs = 0
  /\ edits = 0
  /\ hist = NoHist

----------------------------------------------------------------------------
(* Indexer.chunkFile on the text of a file (unnamed/part_008, 114-153).    *)
(* A line is TRUE when it holds a character that is not white space: this  *)
(* is all that strings.TrimSpace of a window depends on.  A text is its    *)
(* lines and whether the last of them is ended by a newline.               *)

\* longest text, counted in runs of equal lines
MaxSegs == 3

chunkSize == 50

overlap == 10

\* the lengths of a run of equal lines: around the window and the stride
SegLens == {1, overlap, chunkSize - overlap, chunkSize - 1, chunkSize}

RunKinds == [blank : BOOLEAN, len : SegLens]

RECURSIVE Expand(_)
Expand(rs) ==
  IF rs = <<>> THEN <<>>
  ELSE [k \in 1..Head(rs).len |-> ~Head(rs).blank] \o Expand(Tail(rs))

Texts ==
  {[lines |-> Expand(rs), nl |-> b] :
     rs \in UNION {[1..n -> RunKinds] : n \in 0..MaxSegs}, b \in BOOLEAN}

\* strings.Split(text, "\n"): the empty text gives one empty line, and a
\* newline at the end of the text is followed by one more, empty, line
SplitLines(t) ==
  (IF t.lines = <<>> THEN <<FALSE>> ELSE t.lines)
    \o (IF t.nl THEN <<FALSE>> ELSE <<>>)

\* strings.TrimSpace(strings.Join(lines[i:end], "\n")) == ""
BlankWindow(lines, at, end) == \A k \in (at + 1)..end : ~lines[k]

RECURSIVE chunkLoop(_, _)

\* mutant: a blank window ends the loop
chunkLoop_StopAtBlank(lines, at) ==
  IF at >= Len(lines) THEN <<>>
  ELSE LET end == IF at + chunkSize > Len(lines) THEN Len(lines)
                  ELSE at + chunkSize
       IN  IF BlankWindow(lines, at, end)
           THEN <<>>
           ELSE <<[LineStart |-> at + 1, LineEnd |-> end]>>
                  \o (IF end = Len(lines) THEN <<>>
                      ELSE chunkLoop(lines, at + (chunkSize - overlap)))

\* mutant: the loop goes on after the window that reaches the last line
chunkLoop_NoBreak(lines, at) ==
  IF at >= Len(lines) THEN <<>>
  ELSE LET end == IF at + chunkSize > Len(lines) THEN Len(lines)
                  ELSE at + chunkSize
       IN  IF BlankWindow(lines, at, end)
           THEN chunkLoop(lines, at + (chunkSize - overlap))
           ELSE <<[LineStart |-> at + 1, LineEnd |-> end]>>
                  \o chunkLoop(lines, at + (chunkSize - overlap))

\* the loop of lines 128-150, from index at on
chunkLoop(lines, at) ==
  IF at >= Len(lines) THEN <<>>
  ELSE LET end == IF at + chunkSize > Len(lines) THEN Len(lines)
                  ELSE at + chunkSize
       IN  IF BlankWindow(lines, at, end)
           THEN chunkLoop(lines, at + (chunkSize - overlap))
           ELSE <<[LineStart |-> at + 1, LineEnd |-> end]>>
                  \o (IF end = Len(lines) THEN <<>>
                      ELSE chunkLoop(lines, at + (chunkSize - overlap)))

\* chunkFile on a file that os.ReadFile could read
chunkText(t) == chunkLoop(SplitLines(t), 0)

InitChunker ==
  /\ PipelineIdle
  /\ fs = [f \in Files |-> FileText(0)]
  /\ store = {}
  /\ pf \in {[op |-> "chunk", text |-> t, done |-> FALSE, chunks |-> <<>>] :
               t \in Texts}

ChunkText ==
  /\ pf.op = "chunk"
  /\ ~pf.done
  /\ pf' = [pf EXCEPT !.chunks = chunkText(pf.text), !.done = TRUE]
  /\ UNCHANGED <<fs, store>>
  /\ UNCHANGED pipeVars

NextChunker == ChunkText

SpecChunker == InitChunker /\ [][NextChunker]_vars

\* the lines some chunk of the sequence holds
Covered(chunks) ==
  UNION {chunks[k].LineStart..chunks[k].LineEnd : k \in 1..Len(chunks)}

\* the windows the loop visits on n lines when it drops none of them
Windows(n) ==
  {[s |-> w * (chunkSize - overlap) + 1,
    e |-> IF w * (chunkSize - overlap) + chunkSize > n THEN n
          ELSE w * (chunkSize - overlap) + chunkSize] :
     w \in {v \in 0..n : /\ v * (chunkSize - overlap) < n
                         /\ v > 0 => (v - 1) * (chunkSize - overlap) + chunkSize < n}}

C13_ChunkerBoundary ==
  (pf.op = "chunk" /\ pf.done) =>
    LET ls == pf.text.lines
    IN  /\ (Len(ls) = chunkSize /\ \E k \in 1..Len(ls) : ls[k])
             => pf.chunks = <<[LineStart |-> 1, LineEnd |-> chunkSize]>>
        /\ (\A k \in 1..Len(ls) : ~ls[k]) => pf.chunks = <<>>

----------------------------------------------------------------------------
(* deduplicateResults of QdrantDB.Search (rag/vectordb.go, 168-269).       *)
(* A string is the sequence of its characters, so that the key of a hit    *)
(* is formatted and parsed back as the code does it.                       *)

\* longest result list
MaxHits == 3

Digits == <<"0", "1", "2", "3", "4", "5", "6", "7", "8", "9">>

\* %d of fmt.Sprintf
RECURSIVE Itoa(_)
Itoa(n) ==
  IF n < 0 THEN <<"-">> \o Itoa(0 - n)
  ELSE IF n < 10 THEN <<Digits[n + 1]>>
  ELSE Itoa(n \div 10) \o <<Digits[(n % 10) + 1]>>

RECURSIVE DigitsVal(_)
DigitsVal(s) ==
  IF s = <<>> THEN 0
  ELSE DigitsVal(SubSeq(s, 1, Len(s) - 1)) * 10
         + ((CHOOSE d \in 1..10 : Digits[d] = s[Len(s)]) - 1)

\* strconv.Atoi: an optional sign, then one decimal digit or more
Atoi(s) ==
  LET signed == s # <<>> /\ Head(s) \in {"+", "-"}
      body   == IF signed THEN Tail(s) ELSE s
  IN  IF body = <<>> \/ \E k \in 1..Len(body) : body[k] \notin Range(Digits)
      THEN [err |-> TRUE, val |-> 0]
      ELSE [err |-> FALSE,
            val |-> IF signed /\ Head(s) = "-" THEN 0 - DigitsVal(body)
                    ELSE DigitsVal(body)]

\* strings.Split on a separator of one character
RECURSIVE Split(_, _)
Split(s, sep) ==
  IF \A k \in 1..Len(s) : s[k] # sep THEN <<s>>
  ELSE LET p == Min({k \in 1..Len(s) : s[k] = sep})
       IN  <<SubSeq(s, 1, p - 1)>> \o Split(SubSeq(s, p + 1, Len(s)), sep)

\* fmt.Sprintf("%s:%d-%d", FilePath, LineStart, LineEnd)
FormatKey(r) ==
  r.FilePath \o <<":">> \o Itoa(r.LineStart) \o <<"-">> \o Itoa(r.LineEnd)

\* the nil slice parseRangeKey returns for a key it cannot parse
NilParts == [nil |-> TRUE, v |-> <<>>]

parseRangeKey(key) ==
  LET parts == Split(key, ":") IN
  IF Len(parts) # 2 THEN NilParts
  ELSE LET rangeParts == Split(parts[2], "-") IN
       IF Len(rangeParts) # 2 THEN NilParts
       ELSE LET start == Atoi(rangeParts[1])
                end   == Atoi(rangeParts[2])
            IN  IF start.err \/ end.err THEN NilParts
                ELSE [nil |-> FALSE, v |-> <<0, start.val, end.val>>]

max(a, b) == IF a > b THEN a ELSE b

min(a, b) == IF a < b THEN a ELSE b

\* The last line compares float64 values; overlap > range * 0.5 is
\* 2 * overlap > range on the integers.
isOverlapping(key1, key2) ==
  LET parts1 == parseRangeKey(key1)
      parts2 == parseRangeKey(key2)
  IN  IF parts1.nil \/ parts2.nil THEN FALSE
      ELSE IF parts1.v[1] # parts2.v[1] THEN FALSE
      ELSE LET start1 == parts1.v[2]
               end1   == parts1.v[3]
               start2 == parts2.v[2]
               end2   == parts2.v[3]
               overlapStart == max(start1, start2)
               overlapEnd   == min(end1, end2)
           IN  IF overlapStart >= overlapEnd THEN FALSE
               ELSE LET ov     == overlapEnd - overlapStart
                        range1 == end1 - start1
                        range2 == end2 - start2
                    IN  2 * ov > range1 \/ 2 * ov > range2

\* the loop of lines 177-195 over the results left, with the map seen and
\* the slice unique
RECURSIVE dedupLoop(_, _, _)
dedupLoop(rest, seen, unique) ==
  IF rest = <<>> THEN unique
  ELSE LET key == FormatKey(Head(rest))
           isDuplicate == \E existingKey \in seen : isOverlapping(existingKey, key)
       IN  IF ~isDuplicate
           THEN dedupLoop(Tail(rest), seen \cup {key}, Append(unique, Head(rest)))
           ELSE dedupLoop(Tail(rest), seen, unique)

\* mutant: the loop starts at the second result
deduplicateResults_SkipFirst(results) ==
  IF Len(results) = 0 THEN results
  ELSE dedupLoop(Tail(results), {}, <<>>)

deduplicateResults(results) ==
  IF Len(results) = 0 THEN results
  ELSE dedupLoop(results, {}, <<>>)

\* the file paths of the hits: two plain ones and one that holds a colon
AuthJs == <<"a", "u", "t", "h", ".", "j", "s">>

PathB == <<"b">>

PathColon == <<"c", ":", "d">>

\* the line ranges of the hits
Ranges == {<<1, 50>>, <<40, 90>>, <<26, 75>>, <<20, 70>>, <<41, 90>>,
           <<81, 130>>, <<1, 3>>, <<2, 4>>, <<5, 5>>, <<0, 0>>}

HitPool ==
  {[FilePath |-> AuthJs, LineStart |-> r[1], LineEnd |-> r[2]] : r \in Ranges}
    \cup {[FilePath |-> PathB, LineStart |-> r[1], LineEnd |-> r[2]] :
            r \in {<<1, 50>>, <<20, 70>>, <<81, 130>>}}
    \cup {[FilePath |-> PathColon, LineStart |-> r[1], LineEnd |-> r[2]] :
            r \in {<<1, 50>>, <<20, 70>>}}

\* a result list: the ID of a hit is its rank in the list
WithID(hs) ==
  [k \in 1..Len(hs) |-> [ID |-> k, FilePath |-> hs[k].FilePath,
                         LineStart |-> hs[k].LineStart,
                         LineEnd |-> hs[k].LineEnd]]

ResultLists ==
  {WithID(hs) : hs \in UNION {[1..n -> HitPool] : n \in 0..MaxHits}}

InitDedup ==
  /\ PipelineIdle
  /\ fs = [f \in Files |-> FileText(0)]
  /\ store = {}
  /\ pf \in {[op |-> "dedup", results |-> rs, done |-> FALSE, deduped |-> <<>>,
              again |-> FALSE, deduped2 |-> <<>>] : rs \in ResultLists}

\* Search hands its results to deduplicateResults (line 163)
Dedup ==
  /\ pf.op = "dedup"
  /\ ~pf.done
  /\ pf' = [pf EXCEPT !.deduped = deduplicateResults(pf.results),
                      !.done = TRUE]
  /\ UNCHANGED <<fs, store>>
  /\ UNCHANGED pipeVars

\* the deduplicated list is deduplicated once more
DedupAgain ==
  /\ pf.op = "dedup"
  /\ pf.done
  /\ ~pf.again
  /\ pf' = [pf EXCEPT !.deduped2 = deduplicateResults(pf.deduped),
                      !.again = TRUE]
  /\ UNCHANGED <<fs, store>>
  /\ UNCHANGED pipeVars

NextDedup == Dedup \/ DedupAgain

SpecDedup == InitDedup /\ [][NextDedup]_vars

\* the lines two hits share, both ranges taken with their two ends
SharedLines(a, b) ==
  max(0, min(a.LineEnd, b.LineEnd) - max(a.LineStart, b.LineStart) + 1)

\* more than half of the lines of one of the two hits are shared
SharesMoreThanHalf(a, b) ==
  \/ 2 * SharedLines(a, b) > a.LineEnd - a.LineStart + 1
  \/ 2 * SharedLines(a, b) > b.LineEnd - b.LineStart + 1

\* C14: two hits of the same file (here: a path without a colon, ranges of
\* two lines or more) are overlapping exactly when the number of lines
\* their inclusive ranges share is strictly greater than half the inclusive
\* length of at least one of the ranges; of two such hits the later one is
\* dropped exactly then.
C14_DedupThreshold ==
  (pf.op = "dedup" /\ pf.done) =>
    LET rs == pf.results
        plain(r) == ":" \notin Range(r.FilePath) /\ r.LineStart < r.LineEnd
    IN  /\ \A p, q \in 1..Len(rs) :
             (p < q /\ rs[p].FilePath = rs[q].FilePath
                /\ plain(rs[p]) /\ plain(rs[q]))
             => (isOverlapping(FormatKey(rs[p]), FormatKey(rs[q]))
                   <=> SharesMoreThanHalf(rs[p], rs[q]))
        /\ (Len(rs) = 2 /\ rs[1].FilePath = rs[2].FilePath
              /\ plain(rs[1]) /\ plain(rs[2]))
             => pf.deduped = IF SharesMoreThanHalf(rs[1], rs[2])
                             THEN <<rs[1]>> ELSE rs

\* C15: a hit is discarded only when a hit of the same file path was kept
\* before it.
C15_SameFileOnly ==
  (pf.op = "dedup" /\ pf.done) =>
    \A q \in 1..Len(pf.results) :
      pf.results[q] \notin Range(pf.deduped)
        => \E p \in 1..(q - 1) :
             /\ pf.results[p] \in Range(pf.deduped)
             /\ pf.results[p].FilePath = pf.results[q].FilePath

\* C16: deduplicating the deduplicated list gives the same list.
C16_DedupIdempotent ==
  (pf.op = "dedup" /\ pf.again) => pf.deduped2 = pf.deduped

\* a list that lost a hit and kept two was deduplicated again
C16_Witness ==
  /\ pf.op = "dedup"
  /\ pf.again
  /\ Len(pf.deduped) >= 2
  /\ Len(pf.deduped) < Len(pf.results)

\* two hits overlap: they are of the same file and share more than half
\* of the lines of one of them
Overlaps(a, b) == a.FilePath = b.FilePath /\ SharesMoreThanHalf(a, b)

\* C17: the result is a subsequence of the input, in the order of the
\* input; a hit is kept exactly when it overlaps no hit kept before it; the
\* first hit is always kept.
C17_StableGreedyFilter ==
  (pf.op = "dedup" /\ pf.done) =>
    LET rs      == pf.results
        out     == pf.deduped
        kept(q) == rs[q] \in Range(out)
    IN  /\ \A k \in 1..Len(out) :
             out[k].ID \in 1..Len(rs) /\ out[k] = rs[out[k].ID]
        /\ \A k \in 1..(Len(out) - 1) : out[k].ID < out[k + 1].ID
        /\ \A q \in 1..Len(rs) :
             kept(q) <=> ~\E p \in 1..(q - 1) : kept(p) /\ Overlaps(rs[p], rs[q])
        /\ rs # <<>> => (out # <<>> /\ out[1] = rs[1])

\* C18: of the hits auth.js:1-50, auth.js:41-90, auth.js:81-130, in this
\* order, only auth.js:1-50 is retained.
C18_GuideExample ==
  (/\ pf.op = "dedup"
   /\ pf.done
   /\ pf.results = WithID(<<[FilePath |-> AuthJs, LineStart |-> 1, LineEnd |-> 50],
                            [FilePath |-> AuthJs, LineStart |-> 41, LineEnd |-> 90],
                            [FilePath |-> AuthJs, LineStart |-> 81, LineEnd |-> 130]>>))
    => pf.deduped = <<pf.results[1]>>

----------------------------------------------------------------------------
(* The order collectFiles returns (rag/incremental_indexer.go, 208-246).   *)
(* The candidates are the files the walk has let through; they come in the *)
(* order the walk visits them.  Paths are strings of characters.           *)

\* largest number of candidates
MaxCand == 3

\* the characters of the paths, in the order of their bytes
CharOrder ==
  <<".", "/", "a", "b", "c", "d", "e", "f", "g", "h", "i", "j", "k", "l", "m", "n", "o", "p", "q", "r", "s", "t", "u", "v", "w", "x", "y", "z">>

CharRank(c) == CHOOSE k \in 1..Len(CharOrder) : CharOrder[k] = c

\* a < b on Go strings: byte by byte, a proper prefix first
RECURSIVE StrLess(_, _)
StrLess(a, b) ==
  IF b = <<>> THEN FALSE
  ELSE IF a = <<>> THEN TRUE
  ELSE IF Head(a) = Head(b) THEN StrLess(Tail(a), Tail(b))
  ELSE CharRank(Head(a)) < CharRank(Head(b))

priorityDirs ==
  (<<"m", "i", "d", "d", "l", "e", "w", "a", "r", "e">> :> 1) @@
  (<<"a", "p", "i">> :> 2) @@
  (<<"s", "r", "c">> :> 3) @@
  (<<"l", "i", "b">> :> 4) @@
  (<<"c", "o", "r", "e">> :> 5) @@
  (<<"u", "t", "i", "l", "s">> :> 6) @@
  (<<"s", "e", "r", "v", "i", "c", "e", "s">> :> 7) @@
  (<<"m", "o", "d", "e", "l", "s">> :> 8) @@
  (<<"r", "o", "u", "t", "e", "s">> :> 9) @@
  (<<"h", "a", "n", "d", "l", "e", "r", "s">> :> 10)

\* the requested root, "/r"
RootDir == <<"/", "r">>

\* the candidates under the root, by their path relative to the root:
\* middleware/f.go, utils/f.go, pkg/f.go, f.go, pkg/api/f.go,
\* utils/middleware/g.go, api/g.go
RelPaths ==
  {<<"m", "i", "d", "d", "l", "e", "w", "a", "r", "e", "/", "f", ".", "g", "o">>,
   <<"u", "t", "i", "l", "s", "/", "f", ".", "g", "o">>,
   <<"p", "k", "g", "/", "f", ".", "g", "o">>,
   <<"f", ".", "g", "o">>,
   <<"p", "k", "g", "/", "a", "p", "i", "/", "f", ".", "g", "o">>,
   <<"u", "t", "i", "l", "s", "/", "m", "i", "d", "d", "l", "e", "w", "a", "r", "e", "/", "g", ".", "g", "o">>,
   <<"a", "p", "i", "/", "g", ".", "g", "o">>}

\* the path filepath.Walk hands to its callback
UnderRoot(rel) == RootDir \o <<"/">> \o rel

\* filepath.Rel(rootPath, filePath) of a file under rootPath
Rel(rootPath, filePath) == SubSeq(filePath, Len(rootPath) + 2, Len(filePath))

\* lines 209-218: the priority of the first part of the relative path that
\* is a priority directory, 99 when there is none
PriorityOf(rootPath, filePath) ==
  LET pathParts == Split(Rel(rootPath, filePath), "/")
      ranked    == {k \in 1..Len(pathParts) : pathParts[k] \in DOMAIN priorityDirs}
  IN  IF ranked = {} THEN 99 ELSE priorityDirs[pathParts[Min(ranked)]]

\* mutant: files of one priority are not compared by path
lessFile_PriorityOnly(a, b) == a.priority < b.priority

\* the less function of lines 233-238
lessFile(a, b) ==
  IF a.priority # b.priority THEN a.priority < b.priority
  ELSE StrLess(a.path, b.path)

\* sort.Slice on a short slice is an insertion sort: x moves down from the
\* end while it is less than the element before it
RECURSIVE InsertFile(_, _)
InsertFile(sorted, x) ==
  IF sorted = <<>> \/ ~lessFile(x, sorted[Len(sorted)]) THEN Append(sorted, x)
  ELSE Append(InsertFile(SubSeq(sorted, 1, Len(sorted) - 1), x),
              sorted[Len(sorted)])

RECURSIVE sortSlice(_)
sortSlice(files) ==
  IF files = <<>> THEN <<>>
  ELSE InsertFile(sortSlice(SubSeq(files, 1, Len(files) - 1)), files[Len(files)])

\* collectFiles from the candidates in the order the walk appended them;
\* a walk that reports an error gives no list
collectOrdered(rootPath, walked, walkErr) ==
  IF walkErr THEN [err |-> TRUE, result |-> <<>>]
  ELSE LET files  == [k \in 1..Len(walked) |->
                        [path |-> walked[k],
                         priority |-> PriorityOf(rootPath, walked[k])]]
           sorted == sortSlice(files)
       IN  [err |-> FALSE, result |-> [k \in 1..Len(sorted) |-> sorted[k].path]]

\* the orders in which a walk can come by the files of a set
Orders(S) ==
  {w \in [1..Cardinality(S) -> S] : \A p, q \in DOMAIN w : w[p] = w[q] => p = q}

Walks ==
  UNION {Orders({UnderRoot(r) : r \in S}) :
           S \in {T \in SUBSET RelPaths : Cardinality(T) <= MaxCand}}

InitCollect ==
  /\ PipelineIdle
  /\ fs = [f \in Files |-> FileText(0)]
  /\ store = {}
  /\ pf \in {[op |-> "collect", walked |-> w, walkErr |-> e, done |-> FALSE,
              err |-> FALSE, result |-> <<>>] : w \in Walks, e \in BOOLEAN}

Collect ==
  /\ pf.op = "collect"
  /\ ~pf.done
  /\ LET r == collectOrdered(RootDir, pf.walked, pf.walkErr)
     IN  pf' = [pf EXCEPT !.err = r.err, !.result = r.result, !.done = TRUE]
  /\ UNCHANGED <<fs, store>>
  /\ UNCHANGED pipeVars

NextCollect == Collect

SpecCollect == InitCollect /\ [][NextCollect]_vars

\* the first part of the path of a file, relative to the root
FirstPart(filePath) == Split(Rel(RootDir, filePath), "/")[1]

\* C19: collectFiles returns the candidates sorted by ascending priority
\* and, within one priority, by ascending path; any other order of visiting
\* the same candidates gives the same list; a file under middleware/ comes
\* before a file under utils/, which comes before a file of priority 99.
C19_PriorityOrdering ==
  (pf.op = "collect" /\ pf.done /\ ~pf.err) =>
    LET res     == pf.result
        prio(x) == PriorityOf(RootDir, x)
    IN  /\ Len(res) = Len(pf.walked)
        /\ Range(res) = Range(pf.walked)
        /\ \A k \in 1..(Len(res) - 1) :
             \/ prio(res[k]) < prio(res[k + 1])
             \/ prio(res[k]) = prio(res[k + 1]) /\ StrLess(res[k], res[k + 1])
        /\ \A w \in Orders(Range(pf.walked)) :
             collectOrdered(RootDir, w, FALSE).result = res
        /\ \A p, q \in 1..Len(res) :
             /\ (FirstPart(res[p]) = <<"m", "i", "d", "d", "l", "e", "w", "a", "r", "e">> /\ FirstPart(res[q]) = <<"u", "t", "i", "l", "s">>)
                  => p < q
             /\ (FirstPart(res[p]) = <<"u", "t", "i", "l", "s">> /\ prio(res[q]) = 99)
                  => p < q

\* the walk met pkg/f.go, utils/f.go, middleware/f.go in this order, the
\* order of their paths; they are returned in the order of their priorities
C19_Witness ==
  /\ pf.op = "collect"
  /\ pf.done
  /\ ~pf.err
  /\ pf.walked = <<UnderRoot(<<"p", "k", "g", "/", "f", ".", "g", "o">>), UnderRoot(<<"u", "t", "i", "l", "s", "/", "f", ".", "g", "o">>), UnderRoot(<<"m", "i", "d", "d", "l", "e", "w", "a", "r", "e", "/", "f", ".", "g", "o">>)>>
  /\ pf.result = <<UnderRoot(<<"m", "i", "d", "d", "l", "e", "w", "a", "r", "e", "/", "f", ".", "g", "o">>), UnderRoot(<<"u", "t", "i", "l", "s", "/", "f", ".", "g", "o">>), UnderRoot(<<"p", "k", "g", "/", "f", ".", "g", "o">>)>>
  /\ StrLess(pf.walked[1], pf.walked[2])

----------------------------------------------------------------------------
(* Indexer.ReindexFiles (unnamed/part_008, 236-294) on the file tree fs    *)
(* and the vector store.  One iteration of the loop over filePaths is one  *)
(* step; the combined indexBatch call is another.                          *)

\* longest list of paths of one request
MaxReq == 2

\* the points an earlier indexing left for a file
OldPoints(f) == {[file |-> f, idx |-> k, gen |-> 0] : k \in 1..MaxChunks}

\* the request lists: any paths, a path can be named twice
Requests == UNION {[1..n -> Files] : n \in 0..MaxReq}

\* mutant: the file is chunked without asking whether it exists
rechunk_NoStat(fsys, f) ==
  LET r == chunkFile(fsys, f)
  IN  [chunked |-> TRUE, chunks |-> IF r.err # "" THEN <<>> ELSE r.chunks]

\* lines 255-271: os.Stat, then chunkFile; what the iteration adds to
\* allChunks, and whether chunkFile was called
rechunk(fsys, f) ==
  IF fsys[f].kind = "absent" THEN [chunked |-> FALSE, chunks |-> <<>>]
  ELSE LET r == chunkFile(fsys, f)
       IN  [chunked |-> TRUE, chunks |-> IF r.err # "" THEN <<>> ELSE r.chunks]

InitReindex ==
  /\ PipelineIdle
  /\ fs \in [Files -> FileKinds]
  /\ store \in {UNION {OldPoints(f) : f \in S} : S \in SUBSET Files}
  /\ pf \in {[op |-> "reindex", filePaths |-> req, at |-> 0, chunks |-> <<>>,
              calls |-> <<>>, outcome |-> "none", ret |-> "none"] :
               req \in Requests}

\* mutant: the chunks of a file are embedded and upserted in its iteration
ReindexFile_IndexPerFile(deleteOk) ==
  /\ pf.op = "reindex"
  /\ pf.ret = "none"
  /\ pf.at < Len(pf.filePaths)
  /\ LET f == pf.filePaths[pf.at + 1]
         r == rechunk(fs, f)
         d == <<[call |-> "delete", file |-> f, at |-> pf.at + 1, ok |-> deleteOk]>>
         c == IF r.chunked
              THEN <<[call |-> "chunk", file |-> f, at |-> pf.at + 1, ok |-> TRUE]>>
              ELSE <<>>
         e == IF Len(r.chunks) = 0 THEN <<>>
              ELSE <<[call |-> "embed", file |-> f, at |-> pf.at + 1, ok |-> TRUE],
                     [call |-> "upsert", file |-> f, at |-> pf.at + 1, ok |-> TRUE]>>
     IN  /\ store' = (IF deleteOk THEN {q \in store : q.file # f} ELSE store)
                       \cup Points(r.chunks, runs + 1)
         /\ pf' = [pf EXCEPT !.at = @ + 1,
                             !.calls = @ \o d \o c \o e]
  /\ UNCHANGED fs
  /\ UNCHANGED pipeVars

\* mutant: a delete that fails ends the call with an error
ReindexFile_AbortOnDeleteError(deleteOk) ==
  /\ pf.op = "reindex"
  /\ pf.ret = "none"
  /\ pf.at < Len(pf.filePaths)
  /\ LET f == pf.filePaths[pf.at + 1]
         r == rechunk(fs, f)
         d == <<[call |-> "delete", file |-> f, at |-> pf.at + 1, ok |-> deleteOk]>>
         c == IF r.chunked
              THEN <<[call |-> "chunk", file |-> f, at |-> pf.at + 1, ok |-> TRUE]>>
              ELSE <<>>
     IN  IF deleteOk
         THEN /\ store' = {q \in store : q.file # f}
              /\ pf' = [pf EXCEPT !.at = @ + 1,
                                  !.chunks = @ \o r.chunks,
                                  !.calls = @ \o d \o c]
         ELSE /\ store' = store
              /\ pf' = [pf EXCEPT !.calls = @ \o d, !.ret = "error"]
  /\ UNCHANGED fs
  /\ UNCHANGED pipeVars

\* One iteration of lines 244-275 for filePaths[at + 1]: the delete,
\* which the store applies or fails, then the stat and the chunking.
ReindexFile(deleteOk) ==
  /\ pf.op = "reindex"
  /\ pf.ret = "none"
  /\ pf.at < Len(pf.filePaths)
  /\ LET f == pf.filePaths[pf.at + 1]
         r == rechunk(fs, f)
         d == <<[call |-> "delete", file |-> f, at |-> pf.at + 1, ok |-> deleteOk]>>
         c == IF r.chunked
              THEN <<[call |-> "chunk", file |-> f, at |-> pf.at + 1, ok |-> TRUE]>>
              ELSE <<>>
     IN  /\ store' = IF deleteOk THEN {q \in store : q.file # f} ELSE store
         /\ pf' = [pf EXCEPT !.at = @ + 1,
                             !.chunks = @ \o r.chunks,
                             !.calls = @ \o d \o c]
  /\ UNCHANGED fs
  /\ UNCHANGED pipeVars

\* lines 277-280: nothing to index
ReindexNothing ==
  /\ pf.op = "reindex"
  /\ pf.ret = "none"
  /\ pf.at = Len(pf.filePaths)
  /\ Len(pf.chunks) = 0
  /\ pf' = [pf EXCEPT !.ret = "nil"]
  /\ UNCHANGED <<fs, store>>
  /\ UNCHANGED pipeVars

\* mutant: an upsert that fails has stored its points
ReindexIndex_PartialUpsert(outcome) ==
  /\ pf.op = "reindex"
  /\ pf.ret = "none"
  /\ pf.at = Len(pf.filePaths)
  /\ Len(pf.chunks) # 0
  /\ LET e == <<[call |-> "embed", file |-> 0, at |-> 0,
                 ok |-> (outcome # "embed_fail")]>>
         u == IF outcome = "embed_fail" THEN <<>>
              ELSE <<[call |-> "upsert", file |-> 0, at |-> 0,
                      ok |-> (outcome = "ok")]>>
     IN  /\ store' = IF outcome # "embed_fail"
                     THEN store \cup Points(pf.chunks, runs + 1)
                     ELSE store
         /\ pf' = [pf EXCEPT !.calls = @ \o e \o u,
                             !.outcome = outcome,
                             !.ret = IF outcome = "ok" THEN "nil" ELSE "error"]
  /\ UNCHANGED fs
  /\ UNCHANGED pipeVars

\* lines 282-293: the one indexBatch call on all the chunks
ReindexIndex(outcome) ==
  /\ pf.op = "reindex"
  /\ pf.ret = "none"
  /\ pf.at = Len(pf.filePaths)
  /\ Len(pf.chunks) # 0
  /\ LET e == <<[call |-> "embed", file |-> 0, at |-> 0,
                 ok |-> (outcome # "embed_fail")]>>
         u == IF outcome = "embed_fail" THEN <<>>
              ELSE <<[call |-> "upsert", file |-> 0, at |-> 0,
                      ok |-> (outcome = "ok")]>>
     IN  /\ store' = IF outcome = "ok"
                     THEN store \cup Points(pf.chunks, runs + 1)
                     ELSE store
         /\ pf' = [pf EXCEPT !.calls = @ \o e \o u,
                             !.outcome = outcome,
                             !.ret = IF outcome = "ok" THEN "nil" ELSE "error"]
  /\ UNCHANGED fs
  /\ UNCHANGED pipeVars

NextReindex ==
  \/ \E deleteOk \in BOOLEAN : ReindexFile(deleteOk)
  \/ ReindexNothing
  \/ \E o \in IndexOutcomes : ReindexIndex(o)

SpecReindex == InitReindex /\ [][NextReindex]_vars

\* the calls of one kind that the request made for its path number p
CallsAt(call, p) ==
  {k \in 1..Len(pf.calls) : pf.calls[k].call = call /\ pf.calls[k].at = p}

\* C20: when ReindexFiles has returned, for every requested path that is
\* not on disk exactly one delete was issued for it, filtered by that path,
\* it was not chunked, none of its chunks was embedded or upserted; and the
\* call returned an error only when the indexBatch call on the chunks of
\* other files failed.
C20_DeleteThenSkip ==
  (pf.op = "reindex" /\ pf.ret # "none") =>
    /\ \A p \in 1..Len(pf.filePaths) :
         fs[pf.filePaths[p]].kind = "absent"
           => /\ Cardinality(CallsAt("delete", p)) = 1
              /\ \A k \in CallsAt("delete", p) :
                   pf.calls[k].file = pf.filePaths[p]
              /\ CallsAt("chunk", p) = {}
              /\ \A k \in 1..Len(pf.chunks) :
                   pf.chunks[k].file # pf.filePaths[p]
              /\ \A q \in store :
                   q.file = pf.filePaths[p] => q.gen # runs + 1
    /\ pf.ret = "error"
         => /\ pf.outcome \in {"embed_fail", "upsert_fail"}
            /\ \E k \in 1..Len(pf.chunks) :
                 fs[pf.chunks[k].file].kind = "text"
    /\ (\A p \in 1..Len(pf.filePaths) : fs[pf.filePaths[p]].kind = "absent")
         => /\ pf.ret = "nil"
            /\ \A k \in 1..Len(pf.calls) : pf.calls[k].call = "delete"

\* a request for a path that is gone, whose old points the delete removed,
\* and for a file that is there, whose chunks were upserted
C20_Witness ==
  /\ pf.op = "reindex"
  /\ pf.ret = "nil"
  /\ Len(pf.filePaths) = 2
  /\ fs[pf.filePaths[1]].kind = "absent"
  /\ fs[pf.filePaths[2]].kind = "text"
  /\ pf.outcome = "ok"
  /\ pf.calls[1].ok
  /\ \A q \in store : q.file # pf.filePaths[1]
  /\ \E q \in store : q.file = pf.filePaths[2] /\ q.gen = runs + 1

\* the places of the log of calls that hold a call of one kind
CallsOf(call) == {k \in 1..Len(pf.calls) : pf.calls[k].call = call}

\* C21: in every state of a ReindexFiles call, the deletes issued so far
\* are those of the requested paths reached so far, one per path, in the
\* order of the request, each filtered by its path; every delete and every
\* chunking comes before any embed or upsert call; there is at most one
\* embed call and at most one upsert call, made only after the loop has
\* gone through the whole request, and a successful upsert stores the
\* chunks of all the requested files together.  When the call has returned
\* every requested path has had its delete.
C21_ReindexOrdering ==
  (pf.op = "reindex") =>
    LET dels == SortedSeq(CallsOf("delete"))
    IN  /\ Len(dels) = pf.at
        /\ \A p \in 1..Len(dels) :
             /\ pf.calls[dels[p]].at = p
             /\ pf.calls[dels[p]].file = pf.filePaths[p]
        /\ \A k \in CallsOf("embed") \cup CallsOf("upsert") :
             \A d \in CallsOf("delete") \cup CallsOf("chunk") : d < k
        /\ Cardinality(CallsOf("embed")) <= 1
        /\ Cardinality(CallsOf("upsert")) <= 1
        /\ \A k \in CallsOf("upsert") : \E e \in CallsOf("embed") : e < k
        /\ CallsOf("embed") # {} => pf.at = Len(pf.filePaths)
        /\ pf.ret # "none" => pf.at = Len(pf.filePaths)
        /\ (pf.ret = "nil" /\ pf.outcome = "ok")
             => {q \in store : q.gen = runs + 1} = Points(pf.chunks, runs + 1)

\* two files with chunks were requested: two deletes, two chunkings, then
\* one embed call and one upsert call for the chunks of both
C21_Witness ==
  /\ pf.op = "reindex"
  /\ pf.ret = "nil"
  /\ Len(pf.filePaths) = 2
  /\ pf.filePaths[1] # pf.filePaths[2]
  /\ [k \in 1..Len(pf.calls) |-> pf.calls[k].call]
       = <<"delete", "chunk", "delete", "chunk", "embed", "upsert">>
  /\ \A p \in 1..2 : \E k \in 1..Len(pf.chunks) :
       pf.chunks[k].file = pf.filePaths[p]

\* C22: when ReindexFiles has returned, every requested path has had its
\* delete and, when it is on disk, its chunking, whatever deletes failed;
\* the call returned an error exactly when the combined indexBatch call
\* failed (its embedding or its upsert), and that call was made once when
\* there were chunks and not at all when there were none.
C22_ReindexErrorScoping ==
  (pf.op = "reindex" /\ pf.ret # "none") =>
    /\ \A p \in 1..Len(pf.filePaths) :
         /\ Cardinality(CallsAt("delete", p)) = 1
         /\ fs[pf.filePaths[p]].kind # "absent"
              => Cardinality(CallsAt("chunk", p)) = 1
         /\ \A k \in 1..fs[pf.filePaths[p]].n :
              \E c \in 1..Len(pf.chunks) :
                pf.chunks[c] = [file |-> pf.filePaths[p], idx |-> k]
    /\ pf.ret = "error" <=> pf.outcome \in {"embed_fail", "upsert_fail"}
    /\ pf.ret = "error"
         <=> \E k \in CallsOf("embed") \cup CallsOf("upsert") : ~pf.calls[k].ok
    /\ Cardinality(CallsOf("embed")) = IF Len(pf.chunks) = 0 THEN 0 ELSE 1
    /\ Cardinality(CallsOf("upsert")) <= 1

\* the delete of the first path failed; the second path was still deleted
\* and chunked, and the call returned nil
C22_Witness ==
  /\ pf.op = "reindex"
  /\ pf.ret = "nil"
  /\ Len(pf.filePaths) = 2
  /\ \E k \in CallsAt("delete", 1) : ~pf.calls[k].ok
  /\ \E k \in CallsAt("delete", 2) : pf.calls[k].ok
  /\ CallsAt("chunk", 2) # {}
  /\ pf.outcome = "ok"

\* the chunks of one file-batch that were handed to indexBatch: those of
\* the sub-batches that went through and those of the one that failed
SubmittedOf(B) ==
  SubSeq(B.chunks, 1,
         IF B.failed THEN ChunkBatchEnd(B.upserted, Len(B.chunks))
         ELSE B.upserted)

\* the chunks handed to indexBatch by the first b file-batches of the run,
\* in the order in which they were handed over
RECURSIVE SubmittedUpTo(_)
SubmittedUpTo(b) ==
  IF b = 0 THEN <<>>
  ELSE SubmittedUpTo(b - 1) \o SubmittedOf(hist.batches[b])

\* the place of a file in a sequence of distinct files
PlaceIn(files, f) == CHOOSE k \in 1..Len(files) : files[k] = f

\* C23: in a run, the files to process are in the order collectFiles gave;
\* the file-batches are consecutive slices of them, a batch is started
\* only at the top of the loop, after the batch before it has been saved;
\* and in the sequence of the chunks handed to indexBatch no chunk of a
\* file later in the order of collectFiles comes before a chunk of an
\* earlier file.
C23_StorageOrder ==
  /\ [](pc \in {"loop", "index", "save_batch", "save_cancel", "save_final", "done"}
        => LET all == collectFiles(path, fs)
               sub == SubmittedUpTo(Len(hist.batches))
           IN  /\ \A a, b \in 1..Len(toProcess) :
                    a < b => /\ toProcess[a] \in Range(all)
                             /\ toProcess[b] \in Range(all)
                             /\ PlaceIn(all, toProcess[a]) < PlaceIn(all, toProcess[b])
               /\ \A b \in 1..Len(hist.batches) :
                    hist.batches[b].files
                      = SubSeq(toProcess, (b - 1) * FileBatchSize + 1,
                               BatchEnd((b - 1) * FileBatchSize, Len(toProcess)))
               /\ \A p, q \in 1..Len(sub) :
                    p < q => PlaceIn(all, sub[p].file) <= PlaceIn(all, sub[q].file))
  /\ [][Len(hist'.batches) > Len(hist.batches)
          => /\ pc = "loop"
             /\ Len(hist'.batches) = Len(hist.batches) + 1
             /\ hist.saveCalls = Len(hist.batches)]_vars

\* a run of two file-batches: chunks of two files of the first batch, then
\* chunks of the second batch, all upserted
C23_Witness ==
  /\ pc = "done"
  /\ result = "ok"
  /\ Len(hist.batches) = 2
  /\ hist.batches[1].upserted = Len(hist.batches[1].chunks)
  /\ Cardinality({c.file : c \in Range(hist.batches[1].chunks)}) = 2
  /\ hist.batches[2].upserted > 0

----------------------------------------------------------------------------
(* The read/write lock of IndexingState (unnamed/part_007, 52-141) between *)
(* the goroutine of a run (rag/incremental_indexer.go, 57-131) and the     *)
(* goroutine of a progress query (IndexingState.GetStats).  Each goroutine *)
(* is the sequence of its lock operations and field accesses from the      *)
(* moment idx.state points to the state of the run (line 57).              *)

\* sync.RWMutex: RLock, RUnlock; Lock is cut in two, the writer announces
\* itself (from then on no new reader gets in) and then waits for the
\* readers to leave; Unlock.  A read or a write names the fields it touches.
Ins(op, fields) == [ins |-> op, fields |-> fields]

AllFields == {"RootPath", "TotalFiles", "IndexedFiles", "TotalChunks",
              "ProcessedFiles", "FailedFiles", "Status", "LastUpdate"}

\* IndexingState.Save, lines 53-63: json.MarshalIndent reads every field
SaveCode == <<Ins("RLock", {}), Ins("read", AllFields), Ins("RUnlock", {})>>

\* lines 66-74
MarkFileProcessedCode ==
  <<Ins("LockAnnounce", {}), Ins("LockAcquire", {}),
    Ins("write", {"ProcessedFiles", "IndexedFiles", "TotalChunks", "LastUpdate"}),
    Ins("Unlock", {})>>

\* lines 77-83
MarkFileFailedCode ==
  <<Ins("LockAnnounce", {}), Ins("LockAcquire", {}),
    Ins("write", {"FailedFiles", "LastUpdate"}),
    Ins("Unlock", {})>>

\* lines 86-91
IsFileProcessedCode ==
  <<Ins("RLock", {}), Ins("read", {"ProcessedFiles"}), Ins("RUnlock", {})>>

\* lines 94-105
SetStatusCode ==
  <<Ins("LockAnnounce", {}), Ins("LockAcquire", {}),
    Ins("write", {"Status", "LastUpdate"}),
    Ins("Unlock", {})>>

\* lines 108-116
GetProgressCode ==
  <<Ins("RLock", {}), Ins("read", {"TotalFiles", "IndexedFiles"}),
    Ins("RUnlock", {})>>

\* lines 119-141: the fields are read in the order of the map literal, the
\* call of GetProgress in the middle of it
GetStatsCode ==
  <<Ins("RLock", {}),
    Ins("read", {"RootPath", "TotalFiles", "IndexedFiles", "FailedFiles",
                 "TotalChunks"})>>
    \o GetProgressCode
    \o <<Ins("read", {"Status", "LastUpdate"}), Ins("RUnlock", {})>>

RECURSIVE Flatten(_)
Flatten(ss) == IF ss = <<>> THEN <<>> ELSE Head(ss) \o Flatten(Tail(ss))

\* processBatch, lines 253-273, on files that chunk (TRUE) or fail (FALSE)
ProcessBatchCode(oks) ==
  Flatten([k \in 1..Len(oks) |->
             IF oks[k] THEN MarkFileProcessedCode ELSE MarkFileFailedCode])

\* the iterations of the loop of lines 86-120 from file number at on:
\* processBatch, Save, the fields read for the log line, GetProgress
RECURSIVE BatchesCode(_, _)
BatchesCode(oks, at) ==
  IF at >= Len(oks) THEN <<>>
  ELSE ProcessBatchCode(SubSeq(oks, at + 1, BatchEnd(at, Len(oks))))
         \o SaveCode
         \o <<Ins("read", {"IndexedFiles", "TotalFiles"})>>
         \o GetProgressCode
         \o BatchesCode(oks, at + FileBatchSize)

\* IndexDirectoryIncremental from line 65 on, for a run that is not
\* cancelled, on candidates none of which is processed yet
RunCode(oks) ==
  <<Ins("write", {"TotalFiles"})>>
    \o Flatten([k \in 1..Len(oks) |-> IsFileProcessedCode])
    \o (IF Len(oks) = 0 THEN SetStatusCode \o SaveCode
        ELSE BatchesCode(oks, 0) \o SetStatusCode \o SaveCode
               \o <<Ins("read", {"IndexedFiles", "TotalChunks", "FailedFiles"})>>)

Goroutines == {"run", "query"}

InitLocks ==
  /\ PipelineIdle
  /\ fs = [f \in Files |-> FileText(0)]
  /\ store = {}
  /\ pf \in {[op |-> "locks",
              code |-> [g \in Goroutines |->
                          IF g = "run" THEN RunCode(oks) ELSE GetStatsCode],
              at |-> [g \in Goroutines |-> 1],
              readers |-> [g \in Goroutines |-> 0],
              writer |-> "none",
              announced |-> FALSE] :
               oks \in UNION {[1..n -> BOOLEAN] : n \in 0..NumFiles}}

\* the instruction goroutine g is at
NextIns(g) ==
  IF pf.at[g] <= Len(pf.code[g]) THEN pf.code[g][pf.at[g]]
  ELSE Ins("end", {})

\* the lock lets goroutine g execute its next instruction
CanStep(g) ==
  /\ pf.op = "locks"
  /\ pf.at[g] <= Len(pf.code[g])
  /\ NextIns(g).ins = "RLock" => (pf.writer = "none" /\ ~pf.announced)
  /\ NextIns(g).ins = "LockAcquire" =>
       (pf.writer = "none" /\ \A h \in Goroutines : pf.readers[h] = 0)

\* the lock and the goroutines once g has executed its next instruction
AfterStep(g) ==
  LET n == NextIns(g).ins IN
  [pf EXCEPT
     !.at[g] = @ + 1,
     !.readers[g] = IF n = "RLock" THEN @ + 1
                    ELSE IF n = "RUnlock" THEN @ - 1 ELSE @,
     !.announced = IF n = "LockAnnounce" THEN TRUE
                   ELSE IF n = "LockAcquire" THEN FALSE ELSE @,
     !.writer = IF n = "LockAcquire" THEN g
                ELSE IF n = "Unlock" THEN "none" ELSE @]

RunStep ==
  /\ CanStep("run")
  /\ pf' = AfterStep("run")
  /\ UNCHANGED <<fs, store>>
  /\ UNCHANGED pipeVars

QueryStep ==
  /\ CanStep("query")
  /\ pf' = AfterStep("query")
  /\ UNCHANGED <<fs, store>>
  /\ UNCHANGED pipeVars

NextLocks == RunStep \/ QueryStep

SpecLocks == InitLocks /\ [][NextLocks]_vars

\* goroutine g holds the lock as its next access needs it
Guarded(g) ==
  LET n == NextIns(g) IN
  /\ n.ins = "read" => (pf.readers[g] > 0 \/ pf.writer = g)
  /\ n.ins = "write" => pf.writer = g

\* C24, what it concludes: there is no state in which the run is about to
\* write a field without holding the write lock while the progress query
\* is about to read the same field.
C24_LockDiscipline ==
  (pf.op = "locks") =>
    ~(/\ NextIns("run").ins = "write"
      /\ ~Guarded("run")
      /\ NextIns("query").ins = "read"
      /\ NextIns("run").fields \cap NextIns("query").fields # {})

----------------------------------------------------------------------------
(* LocalEmbedder.EmbedBatch (rag/embeddings.go, 165-209) on its own.  A    *)
(* text is its rank in the input and its length in bytes; the embedding    *)
(* server answers a request with one vector per text, in order, or fails.  *)

MaxTextRuns == 2

maxBatchSize == 20

maxTokensHint == 28000

TextLens == {0, 6000, 120000}

TextRunLens == {1, maxBatchSize - 1, maxBatchSize, maxBatchSize + 1}

TextRuns == [len : TextLens, count : TextRunLens]

RECURSIVE ExpandTexts(_)
ExpandTexts(rs) ==
  IF rs = <<>> THEN <<>>
  ELSE [k \in 1..Head(rs).count |-> Head(rs).len] \o ExpandTexts(Tail(rs))

\* the inputs: runs of texts of one length, each text with its rank
TextLists ==
  {[k \in 1..Len(ls) |-> [id |-> k, len |-> ls[k]]] :
     ls \in {ExpandTexts(rs) :
               rs \in UNION {[1..n -> TextRuns] : n \in 1..MaxTextRuns}}}

RECURSIVE totalChars(_)
totalChars(texts) ==
  IF texts = <<>> THEN 0 ELSE Head(texts).len + totalChars(Tail(texts))

\* lines 213-221
estimateTokens(texts) == (totalChars(texts) + Len(texts) * 100) \div 4

\* the vector the server gives for a text
Embedding(t) == [of |-> t.id]

\* embedBatchDirect, lines 224-264, when the request succeeds
embedBatchDirect(texts) == [k \in 1..Len(texts) |-> Embedding(texts[k])]

\* lines 178-198: the end of the sub-batch that starts at index at
subBatchEnd(texts, at) ==
  LET end == min(at + maxBatchSize, Len(texts))
      estimatedTokens == estimateTokens(SubSeq(texts, at + 1, end))
      reducedSize == max((maxBatchSize * maxTokensHint) \div estimatedTokens, 1)
  IN  IF estimatedTokens > maxTokensHint
      THEN min(at + reducedSize, Len(texts))
      ELSE end

InitEmbed ==
  /\ PipelineIdle
  /\ fs = [f \in Files |-> FileText(0)]
  /\ store = {}
  /\ pf \in {[op |-> "embed", texts |-> ts, at |-> 0, requests |-> 0,
              allEmbeddings |-> <<>>, done |-> FALSE, ret |-> "none"] :
               ts \in TextLists}

\* lines 167-172: the batch is small enough, one request for all of it
EmbedDirect(ok) ==
  /\ pf.op = "embed"
  /\ ~pf.done
  /\ pf.requests = 0
  /\ Len(pf.texts) <= maxBatchSize
  /\ estimateTokens(pf.texts) <= maxTokensHint
  /\ pf' = [pf EXCEPT
              !.requests = 1,
              !.allEmbeddings = IF ok THEN embedBatchDirect(pf.texts) ELSE <<>>,
              !.done = TRUE,
              !.ret = IF ok THEN "nil" ELSE "error"]
  /\ UNCHANGED <<fs, store>>
  /\ UNCHANGED pipeVars

\* lines 177-206: one iteration of the loop over the sub-batches
EmbedSubBatch(ok) ==
  /\ pf.op = "embed"
  /\ ~pf.done
  /\ ~(Len(pf.texts) <= maxBatchSize /\ estimateTokens(pf.texts) <= maxTokensHint)
  /\ pf.at < Len(pf.texts)
  /\ LET end == subBatchEnd(pf.texts, pf.at)
         subBatch == SubSeq(pf.texts, pf.at + 1, end)
     IN  pf' = IF ok
               THEN [pf EXCEPT
                       !.requests = @ + 1,
                       !.allEmbeddings = @ \o embedBatchDirect(subBatch),
                       !.at = @ + maxBatchSize,
                       !.done = pf.at + maxBatchSize >= Len(pf.texts),
                       !.ret = IF pf.at + maxBatchSize >= Len(pf.texts)
                               THEN "nil" ELSE "none"]
               ELSE [pf EXCEPT
                       !.requests = @ + 1,
                       !.allEmbeddings = <<>>,
                       !.done = TRUE,
                       !.ret = "error"]
  /\ UNCHANGED <<fs, store>>
  /\ UNCHANGED pipeVars

NextEmbed ==
  \/ \E ok \in BOOLEAN : EmbedDirect(ok)
  \/ \E ok \in BOOLEAN : EmbedSubBatch(ok)

SpecEmbed == InitEmbed /\ [][NextEmbed]_vars

\* C25: when EmbedBatch returns without error it returns one vector for
\* each input text, and the vector at each position is the embedding of the
\* text at that position.
C25_EmbedBatchCardinality ==
  (pf.op = "embed" /\ pf.done /\ pf.ret = "nil") =>
    /\ Len(pf.allEmbeddings) = Len(pf.texts)
    /\ \A k \in 1..Len(pf.texts) : pf.allEmbeddings[k] = Embedding(pf.texts[k])

----------------------------------------------------------------------------
(* The marker file .code-rag-pending-reindex, processed at startup by      *)
(* processPendingReindex (unnamed/part_004, 21-69) and on POST             *)
(* /reindex-pending by handleReindexPending (server/http_api.go, 160-255). *)
(* The marker is on disk or not, and holds the paths strings.Fields finds  *)
(* in it.                                                                  *)

NoMarker == [exists |-> FALSE, paths |-> <<>>]

Markers == {NoMarker} \cup {[exists |-> TRUE, paths |-> req] : req \in Requests}

\* ReindexFiles(ctx, []string{filePath}, collectionName), part_008 237-294,
\* as one call: the store after it and what it returns
ReindexOne(points, fsys, f, deleteOk, outcome) ==
  LET r == rechunk(fsys, f)
      kept == IF deleteOk THEN {q \in points : q.file # f} ELSE points
  IN  IF Len(r.chunks) = 0 THEN [store |-> kept, ret |-> "nil"]
      ELSE IF outcome = "ok"
           THEN [store |-> kept \cup Points(r.chunks, runs + 1), ret |-> "nil"]
           ELSE [store |-> kept, ret |-> "error"]

InitPending ==
  /\ PipelineIdle
  /\ fs \in [Files -> FileKinds]
  /\ store = UNION {OldPoints(f) : f \in Files}
  /\ pf \in {[op |-> "pending", entry |-> e, marker |-> m, step |-> "read",
              filePaths |-> <<>>, at |-> 0, successCount |-> 0, errors |-> 0] :
               e \in {"startup", "http"}, m \in Markers}

\* part_004 22-47, http_api.go 178-216: the marker is read and parsed; a
\* marker with no path in it is removed at once
PendingRead ==
  /\ pf.op = "pending"
  /\ pf.step = "read"
  /\ pf' = IF ~pf.marker.exists THEN [pf EXCEPT !.step = "done"]
           ELSE IF pf.marker.paths = <<>>
                THEN [pf EXCEPT !.step = "done", !.marker = NoMarker]
                ELSE [pf EXCEPT !.step = "loop", !.filePaths = pf.marker.paths]
  /\ UNCHANGED <<fs, store>>
  /\ UNCHANGED pipeVars

\* part_004 54-60, http_api.go 226-233: one path of the marker is reindexed
PendingReindex(deleteOk, outcome) ==
  /\ pf.op = "pending"
  /\ pf.step = "loop"
  /\ pf.at < Len(pf.filePaths)
  /\ LET r == ReindexOne(store, fs, pf.filePaths[pf.at + 1], deleteOk, outcome)
     IN  /\ store' = r.store
         /\ pf' = [pf EXCEPT
                     !.at = @ + 1,
                     !.successCount = IF r.ret = "nil" THEN @ + 1 ELSE @,
                     !.errors = IF r.ret = "nil" THEN @ ELSE @ + 1]
  /\ UNCHANGED fs
  /\ UNCHANGED pipeVars

\* part_004 66-68: at startup the marker is removed; http_api.go 236-240:
\* the handler removes it when no path failed.  os.Remove can fail.
PendingFinish(removeOk) ==
  /\ pf.op = "pending"
  /\ pf.step = "loop"
  /\ pf.at = Len(pf.filePaths)
  /\ pf' = [pf EXCEPT
              !.step = "done",
              !.marker = IF removeOk /\ (pf.entry = "startup" \/ pf.errors = 0)
                         THEN NoMarker ELSE @]
  /\ UNCHANGED <<fs, store>>
  /\ UNCHANGED pipeVars

NextPending ==
  \/ PendingRead
  \/ \E deleteOk \in BOOLEAN, o \in IndexOutcomes : PendingReindex(deleteOk, o)
  \/ \E removeOk \in BOOLEAN : PendingFinish(removeOk)

SpecPending == InitPending /\ [][NextPending]_vars

\* C26: on both paths, once the marker that listed paths is gone, every
\* listed path has been reindexed and none of them failed; so a marker one
\* of whose paths failed is still in place.
C26_PendingMarker ==
  (pf.op = "pending" /\ pf.filePaths # <<>> /\ ~pf.marker.exists) =>
    (pf.at = Len(pf.filePaths) /\ pf.errors = 0)

----------------------------------------------------------------------------
----------------------------------------------------------------------------
\* the files of a batch that are readable and give no chunk
EmptyFiles(files) == {f \in Range(files) : fs[f] = FileText(0)}

\* the files of a batch that are readable
ReadableFiles(files) == {f \in Range(files) : fs[f].kind = "text"}

\* C28: when processBatch has chunked a file-batch, each readable file of
\* it that gave no chunk is in the processed set, its entry in the failed
\* map is as it was, and no chunk handed to the embedder is one of its
\* chunks; the indexed count grew by one for each readable file of the
\* batch, those without chunks included, and the total of chunks by the
\* chunks of the batch only.  A batch whose files all give no chunk calls
\* the embedder not at all.
C28_ZeroChunkFile ==
  [][(pc = "loop" /\ Len(hist'.batches) > Len(hist.batches)) =>
       LET files == hist'.batches[Len(hist'.batches)].files IN
       /\ \A f \in EmptyFiles(files) :
            /\ f \in st'.processed
            /\ f \notin st.processed
            /\ st'.failed[f] = st.failed[f]
            /\ \A k \in 1..Len(allChunks') : allChunks'[k].file # f
       /\ st'.indexed = st.indexed + Cardinality(ReadableFiles(files))
       /\ st'.chunks = st.chunks + Len(allChunks')
       /\ (EmptyFiles(files) = Range(files)) =>
            (st'.chunks = st.chunks /\ pc' = "save_batch"
               /\ hist'.embedCalls = hist.embedCalls)]_vars

\* a batch of a file without chunks and a file with chunks has been
\* chunked: the first is processed and the chunks of the second wait for
\* the embedder
C28_Witness ==
  /\ pc = "index"
  /\ j = 0
  /\ hist.batches # <<>>
  /\ LET files == hist.batches[Len(hist.batches)].files IN
     /\ \E f \in EmptyFiles(files) : f \in st.processed /\ st.failed[f] = Absent
     /\ EmptyFiles(files) # Range(files)
  /\ allChunks # <<>>
  /\ st.indexed > 1

----------------------------------------------------------------------------
\* the files of the first b file-batches of the run, in order
RECURSIVE BatchFilesUpTo(_)
BatchFilesUpTo(b) ==
  IF b = 0 THEN <<>>
  ELSE BatchFilesUpTo(b - 1) \o hist.batches[b].files

\* C29: in a run, every file-batch holds between 1 and FileBatchSize files,
\* every batch but the last one cut is full, the batches one after the
\* other are a prefix of the files to process and, when the loop is over,
\* all of them.  Every indexBatch call gets between 1 and ChunkBatchSize
\* chunks, the slice of the chunk list of the batch that starts where the
\* calls before it ended and is as long as the size allows; the chunks
\* upserted are those of the slice; and once a call has failed, no other
\* call is made for the same file-batch.
C29_BatchSizing ==
  /\ [](pc \in {"loop", "index", "save_batch", "save_cancel", "save_final"}
        => LET nb   == Len(hist.batches)
               done == BatchFilesUpTo(nb)
           IN  /\ \A b \in 1..nb :
                    /\ Len(hist.batches[b].files) >= 1
                    /\ Len(hist.batches[b].files) <= FileBatchSize
                    /\ b < nb => Len(hist.batches[b].files) = FileBatchSize
               /\ Len(done) <= Len(toProcess)
               /\ done = SubSeq(toProcess, 1, Len(done))
               /\ (nb > 0 /\ Len(hist.batches[nb].files) < FileBatchSize)
                    => done = toProcess
               /\ (pc = "save_final") => done = toProcess
               /\ (pc = "index")
                    => /\ ~hist.batches[nb].failed
                       /\ hist.batches[nb].upserted = j
                       /\ j < Len(allChunks)
                       /\ allChunks = hist.batches[nb].chunks)
  /\ [][hist'.embedCalls > hist.embedCalls
          => LET nb   == Len(hist.batches)
                 size == hist'.batches[nb].sub
                 rest == Len(allChunks) - j
             IN  /\ pc = "index"
                 /\ hist'.embedCalls = hist.embedCalls + 1
                 /\ size >= 1
                 /\ size <= ChunkBatchSize
                 /\ size <= rest
                 /\ (size < ChunkBatchSize) => size = rest
                 /\ allChunks' = allChunks
                 /\ IF hist'.batches[nb].failed
                    THEN /\ pc' # "index"
                         /\ store' = store
                         /\ j' = j
                    ELSE /\ j' = j + size
                         /\ store' = store \cup
                              Points(SubSeq(allChunks, j + 1, j + size), runs)
                         /\ pc' = IF j' < Len(allChunks) THEN "index"
                                  ELSE "save_batch"]_vars

\* a file-batch of more chunks than one call takes: its first call went
\* through, its second call failed and the batch is being saved
C29_Witness ==
  /\ pc = "save_batch"
  /\ hist.batches # <<>>
  /\ LET B == hist.batches[Len(hist.batches)] IN
     /\ Len(B.files) = FileBatchSize
     /\ Len(B.chunks) > ChunkBatchSize
     /\ B.upserted = ChunkBatchSize
     /\ B.failed
     /\ B.sub >= 1

----------------------------------------------------------------------------
\* C30: a run ends straight from its start only with an error, and leaves
\* the state file and the store as they were; a run that has returned the
\* error of the walk has no file to process, has chunked no file, has
\* called neither the embedder nor the store nor Save, has upserted no
\* point, and the state file is the one the run found.
C30_CollectionFailure ==
  /\ []((pc = "done" /\ result = "error")
        => /\ toProcess = <<>>
           /\ allChunks = <<>>
           /\ hist.visited = <<>>
           /\ hist.batches = <<>>
           /\ hist.embedCalls = 0
           /\ hist.upsertCalls = 0
           /\ hist.saveCalls = 0
           /\ {q \in store : q.gen = runs} = {}
           /\ disk = hist.loaded)
  /\ [][(pc = "idle" /\ pc' = "done")
          => /\ result' = "error"
             /\ disk' = disk
             /\ store' = store]_vars

\* the walk fails in a run that found the state file and the points of an
\* earlier run, with files on disk that the run would have indexed
C30_Witness ==
  /\ pc = "done"
  /\ result = "error"
  /\ disk.kind = "ok"
  /\ disk.st.status = "in_progress"
  /\ disk.st.root = path
  /\ store # {}
  /\ \E f \in Files : /\ RootOf(f) = path
                      /\ fs[f].kind = "text"
                      /\ f \notin disk.st.processed

----------------------------------------------------------------------------
\* C31: when a run has ended with status completed, no file having been
\* edited, every file of the processed set that has chunks has a point in
\* the store for each of its chunks.
C31_ProcessedImpliesStored ==
  (pc = "done" /\ result = "ok" /\ st.status = "completed" /\ edits = 0) =>
    \A f \in st.processed :
      fs[f].kind = "text" =>
        \A k \in 1..fs[f].n : \E q \in store : q.file = f /\ q.idx = k

----------------------------------------------------------------------------
\* The two goroutines under the scheduler of Go: a goroutine that can run
\* is run in the end.
SpecLocksFair == SpecLocks /\ WF_vars(RunStep) /\ WF_vars(QueryStep)

\* C32: the call of GetStats returns and the run goes through all of its
\* calls of the state, whatever the interleaving of the two goroutines.
C32_QueriesReturn ==
  (pf.op = "locks") ~> (\A g \in Goroutines : pf.at[g] > Len(pf.code[g]))

----------------------------------------------------------------------------
\* C33: the indexed file count of the state of the process, and of the
\* state in the state file, is the number of files of its processed set.
C33_IndexedCountsProcessed ==
  /\ st.indexed = Cardinality(st.processed)
  /\ disk.kind = "ok" => disk.st.indexed = Cardinality(disk.st.processed)

\* a run that resumed a state with processed files has marked more files
\* and has saved the state
C33_Witness ==
  /\ pc = "done"
  /\ hist.resumed
  /\ hist.loaded.st.processed # {}
  /\ st.processed # hist.loaded.st.processed
  /\ hist.prev \in {"cancelled", "crashed"}
  /\ disk.kind = "ok"
  /\ disk.st.indexed = NumFiles

----------------------------------------------------------------------------
\* C34: in a run, once the candidates are collected and the total file
\* count is set, the indexed file count is at most the total file count.
C34_IndexedAtMostTotal ==
  (pc \in {"loop", "index", "save_batch", "save_cancel", "save_final"}
     \/ (pc = "done" /\ result # "error"))
  => st.indexed <= st.total

----------------------------------------------------------------------------
\* the points of the store for a file
PointsOf(f) == {q \in store : q.file = f}

\* C35: when ReindexFiles has returned nil, for each requested file that is
\* readable the points of the store for it are those of the call, one for
\* each chunk of the file, and each chunk of the file was handed to the
\* store once.
C35_ReindexPostcondition ==
  (pf.op = "reindex" /\ pf.ret = "nil") =>
    \A f \in Range(pf.filePaths) :
      fs[f].kind = "text" =>
        /\ PointsOf(f) = {[file |-> f, idx |-> k, gen |-> runs + 1] :
                            k \in 1..fs[f].n}
        /\ \A k \in 1..fs[f].n :
             Cardinality({p \in 1..Len(pf.chunks) :
                            pf.chunks[p] = [file |-> f, idx |-> k]}) = 1

----------------------------------------------------------------------------
\* C36: the step in which the combined embed or upsert of ReindexFiles
\* fails leaves the store as the deletes made it; so when the call has
\* returned the error, the store holds no point of the call, and no point
\* at all for a requested file one of whose deletes went through.
C36_ReindexFailureKeepsDeletes ==
  /\ []((pf.op = "reindex" /\ pf.ret = "error")
        => /\ pf.outcome \in {"embed_fail", "upsert_fail"}
           /\ {q \in store : q.gen = runs + 1} = {}
           /\ \A c \in Range(pf.calls) :
                (c.call = "delete" /\ c.ok) => PointsOf(c.file) = {})
  /\ [][(pf.op = "reindex" /\ pf.ret = "none" /\ pf'.ret = "error")
          => store' = store]_vars

\* the upsert failed after a delete that went through and a delete that
\* failed and left the old points of its file
C36_Witness ==
  /\ pf.op = "reindex"
  /\ pf.ret = "error"
  /\ pf.outcome = "upsert_fail"
  /\ \E c, d \in Range(pf.calls) :
       /\ c.call = "delete" /\ c.ok /\ fs[c.file].kind = "text"
       /\ d.call = "delete" /\ ~d.ok /\ PointsOf(d.file) # {}

----------------------------------------------------------------------------
\* C37: the output of deduplicateResults holds no two hits with the same
\* file path, start line and end line.
C37_NoExactDuplicates ==
  (pf.op = "dedup" /\ pf.done) =>
    \A a, b \in 1..Len(pf.deduped) :
      a < b => ~(/\ pf.deduped[a].FilePath = pf.deduped[b].FilePath
                 /\ pf.deduped[a].LineStart = pf.deduped[b].LineStart
                 /\ pf.deduped[a].LineEnd = pf.deduped[b].LineEnd)

----------------------------------------------------------------------------
\* C38: the run comes to its end: IndexDirectoryIncremental goes through
\* all of its calls and returns, a progress query being served meanwhile.
C38_RunTerminates ==
  (pf.op = "locks" /\ pf.at["run"] = 1) ~> (pf.at["run"] > Len(pf.code["run"]))

----------------------------------------------------------------------------
\* C39: a run that has returned nil, its collection having succeeded and
\* its context not having been cancelled, has left a state file whose
\* status is completed; and the status is never failed, in memory or in
\* the state file.
C39_FinalStatusPersisted ==
  /\ (pc = "done" /\ result = "ok")
       => (disk.kind = "ok" /\ disk.st.status = "completed")
  /\ st.status # "failed"
  /\ disk.kind = "ok" => disk.st.status # "failed"

----------------------------------------------------------------------------
(* The walk of collectFiles (rag/incremental_indexer.go, 157-230): the     *)
(* callback of filepath.Walk prunes directories, filters the files by      *)
(* extension and size; and what the run does with the list (59-83).        *)

\* largest number of files in the tree
MaxEntries == 3

\* lines 158-179
skipDirs ==
  {<<"n", "o", "d", "e", "_", "m", "o", "d", "u", "l", "e", "s">>,
   <<".", "g", "i", "t">>,
   <<"v", "e", "n", "d", "o", "r">>,
   <<"_", "_", "p", "y", "c", "a", "c", "h", "e", "_", "_">>,
   <<".", "v", "e", "n", "v">>,
   <<"v", "e", "n", "v">>,
   <<"d", "i", "s", "t">>,
   <<"b", "u", "i", "l", "d">>,
   <<"c", "o", "v", "e", "r", "a", "g", "e">>,
   <<"t", "e", "s", "t">>,
   <<"t", "e", "s", "t", "s">>,
   <<"_", "_", "t", "e", "s", "t", "s", "_", "_">>,
   <<"s", "p", "e", "c">>,
   <<"s", "p", "e", "c", "s">>,
   <<"m", "o", "c", "k", "s">>,
   <<"f", "i", "x", "t", "u", "r", "e", "s">>,
   <<".", "n", "e", "x", "t">>,
   <<".", "n", "u", "x", "t">>,
   <<"t", "a", "r", "g", "e", "t">>,
   <<"b", "i", "n">>}

\* the extensions the caller asks for
extensions == {<<".", "g", "o">>}

\* the requested roots: /r, ., /r/test, /r/.w, /test/r
WalkRoots ==
  {<<"/", "r">>,
   <<".">>,
   <<"/", "r", "/", "t", "e", "s", "t">>,
   <<"/", "r", "/", ".", "w">>,
   <<"/", "t", "e", "s", "t", "/", "r">>}

\* the files a tree can hold, by path relative to the root, with their size:
\* f.go, pkg/f.go, vendor/f.go, pkg/test/f.go, .git/f.go, pkg/.x/f.go,
\* f.txt, api/g.go (1 MB), big.go (1 MB and one byte)
EntryPool ==
  {[rel |-> <<"f", ".", "g", "o">>, size |-> 100],
   [rel |-> <<"p", "k", "g", "/", "f", ".", "g", "o">>, size |-> 100],
   [rel |-> <<"v", "e", "n", "d", "o", "r", "/", "f", ".", "g", "o">>, size |-> 100],
   [rel |-> <<"p", "k", "g", "/", "t", "e", "s", "t", "/", "f", ".", "g", "o">>, size |-> 100],
   [rel |-> <<".", "g", "i", "t", "/", "f", ".", "g", "o">>, size |-> 100],
   [rel |-> <<"p", "k", "g", "/", ".", "x", "/", "f", ".", "g", "o">>, size |-> 100],
   [rel |-> <<"f", ".", "t", "x", "t">>, size |-> 100],
   [rel |-> <<"a", "p", "i", "/", "g", ".", "g", "o">>, size |-> 1024 * 1024],
   [rel |-> <<"b", "i", "g", ".", "g", "o">>, size |-> 1024 * 1024 + 1]}

Trees == {T \in SUBSET EntryPool : Cardinality(T) <= MaxEntries}

\* filepath.Base: the last element of the path, trailing slashes dropped
Base(p) ==
  IF p = <<>> THEN <<".">>
  ELSE LET parts == Split(p, "/")
           full  == {k \in 1..Len(parts) : parts[k] # <<>>}
       IN  IF full = {} THEN <<"/">>
           ELSE parts[CHOOSE k \in full : \A m \in full : m <= k]

\* filepath.Ext: the suffix of the last element from its last dot on
Ext(p) ==
  LET name == Base(p)
      dots == {k \in 1..Len(name) : name[k] = "."}
  IN  IF dots = {} THEN <<>>
      ELSE SubSeq(name, CHOOSE k \in dots : \A m \in dots : m <= k, Len(name))

\* filepath.Join(dir, name), as Walk builds the path of an entry
Join(dir, name) == IF dir = <<".">> THEN name ELSE dir \o <<"/">> \o name

\* the names of a directory as Walk reads them, sorted
RECURSIVE SortNames(_)
SortNames(S) ==
  IF S = {} THEN <<>>
  ELSE LET least == CHOOSE n \in S : \A m \in S \ {n} : StrLess(n, m)
       IN  <<least>> \o SortNames(S \ {least})

\* mutant: hidden directories are not pruned
skipDir_DenyListOnly(dirName) == dirName \in skipDirs

\* line 189: the directory is pruned
skipDir(dirName) == dirName \in skipDirs \/ Head(dirName) = "."

\* lines 195-226: the callback on a file
visitFile(filePath, size) ==
  IF Ext(filePath) \notin extensions THEN <<>>
  ELSE IF size > 1024 * 1024 THEN <<>>
  ELSE <<filePath>>

\* filepath.Walk with the callback of lines 181-227 on the directory
\* dirPath, whose files are ents (parts of the path below it, size): the
\* files appended, in order.  SkipDir leaves the directory out, the root
\* as well.
RECURSIVE walkDir(_, _)
RECURSIVE walkNames(_, _, _)
walkDir(dirPath, ents) ==
  IF skipDir(Base(dirPath)) THEN <<>>
  ELSE walkNames(dirPath, ents, SortNames({e.parts[1] : e \in ents}))

walkNames(dirPath, ents, names) ==
  IF names = <<>> THEN <<>>
  ELSE LET n     == Head(names)
           under == {e \in ents : e.parts[1] = n}
           files == {e \in under : Len(e.parts) = 1}
       IN  (IF files # {}
            THEN visitFile(Join(dirPath, n), (CHOOSE e \in files : TRUE).size)
            ELSE walkDir(Join(dirPath, n),
                         {[parts |-> Tail(e.parts), size |-> e.size] : e \in under}))
             \o walkNames(dirPath, ents, Tail(names))

\* collectFiles on a root that exists or not (os.Lstat fails, the callback
\* returns the error)
collectWalk(rootPath, rootExists, tree) ==
  IF ~rootExists THEN [err |-> TRUE, result |-> <<>>]
  ELSE collectOrdered(rootPath,
                      walkDir(rootPath,
                              {[parts |-> Split(e.rel, "/"), size |-> e.size] :
                                 e \in tree}),
                      FALSE)

InitWalk ==
  /\ PipelineIdle
  /\ fs = [f \in Files |-> FileText(0)]
  /\ store = {}
  /\ pf \in {[op |-> "walk", root |-> r, rootExists |-> x, tree |-> T,
              done |-> FALSE, err |-> FALSE, result |-> <<>>,
              state |-> NewIndexingState(r), ret |-> "none"] :
               r \in WalkRoots, x \in BOOLEAN, T \in Trees}

\* IndexDirectoryIncremental with no state file, lines 43-83: the error of
\* the collection is returned; an empty list ends the run as completed;
\* otherwise the run goes on to its batches
CollectAndStart ==
  /\ pf.op = "walk"
  /\ ~pf.done
  /\ LET r  == collectWalk(pf.root, pf.rootExists, pf.tree)
         s1 == [pf.state EXCEPT !.total = Len(r.result)]
     IN  pf' = [pf EXCEPT
                  !.done = TRUE,
                  !.err = r.err,
                  !.result = r.result,
                  !.state = IF r.err THEN @
                            ELSE IF Len(r.result) = 0
                                 THEN SetStatus(s1, "completed")
                                 ELSE s1,
                  !.ret = IF r.err THEN "error"
                          ELSE IF Len(r.result) = 0 THEN "nil" ELSE "none"]
  /\ UNCHANGED <<fs, store>>
  /\ UNCHANGED pipeVars

NextWalk == CollectAndStart

SpecWalk == InitWalk /\ [][NextWalk]_vars

\* the names of the directories of a returned file, from the root down:
\* the name of the root and the directories between the root and the file
DirsOnPath(rootPath, filePath) ==
  LET parts == Split(Rel(rootPath, filePath), "/")
  IN  {Base(rootPath)} \cup {parts[k] : k \in 1..(Len(parts) - 1)}

\* the directory name is pruned by the rule of the walk
Denied(name) == name \in skipDirs \/ name[1] = "."

\* C40: no returned file has, from the root down, the name of the root
\* included, a directory whose name is in the deny-list or begins with a
\* dot; and when the root exists and its own name is such a name,
\* collectFiles returns the empty list and no error, and the run returns
\* nil with status completed and a total of zero files.
C40_PruningAppliesToRoot ==
  (pf.op = "walk" /\ pf.done) =>
    /\ \A k \in 1..Len(pf.result) :
         \A d \in DirsOnPath(pf.root, pf.result[k]) : ~Denied(d)
    /\ (pf.rootExists /\ Denied(Base(pf.root)))
         => /\ ~pf.err
            /\ pf.result = <<>>
            /\ pf.ret = "nil"
            /\ pf.state.status = "completed"
            /\ pf.state.total = 0
            /\ pf.state.indexed = 0

\* the root "." holds f.go and pkg/f.go; the run has ended with no file
C40_Witness ==
  /\ pf.op = "walk"
  /\ pf.done
  /\ pf.root = <<".">>
  /\ pf.rootExists
  /\ \E e \in pf.tree : e.rel = <<"f", ".", "g", "o">>
  /\ \E e \in pf.tree : e.rel = <<"p", "k", "g", "/", "f", ".", "g", "o">>
  /\ pf.result = <<>>
  /\ pf.state.status = "completed"

====
